---------------------------- MODULE Spec2Model ----------------------------
(***************************************************************************)
(* Session orchestration core of the AI learning assistant (src/app.py):   *)
(* WorkspaceManager (session store), ToolExecutor, the LLM gateway as seen  *)
(* by its consumers, and the three request handlers inquiry_chat,           *)
(* generate_study_plan and teaching_chat.                                   *)
(*                                                                          *)
(* Text is modelled by TLA+ strings (Len, \o and SubSeq act on them), the   *)
(* file system by the set of existing directories and a map from the paths  *)
(* of existing files to their content.  A file written by json.dump holds   *)
(* the dumped document; a file written as text holds the text.              *)
(***************************************************************************)
EXTENDS Integers, Sequences, FiniteSets, TLC

\* ------------------------------------------------------------------------
\* Bounds of the model
\* ------------------------------------------------------------------------

\* longest message log a turn may still extend
MaxMessages == 3

\* most chunks in one model response stream
MaxStream == 2

\* most invocations of compress_context the model follows
MaxCompressions == 2

\* the clock seconds that pass
MaxClock == 1

\* ------------------------------------------------------------------------
\* Strings
\* ------------------------------------------------------------------------

Char(s, i) == SubSeq(s, i, i)

StartsWith(s, p) == Len(p) <= Len(s) /\ SubSeq(s, 1, Len(p)) = p

EndsWith(s, p) == Len(p) <= Len(s) /\ SubSeq(s, Len(s) - Len(p) + 1, Len(s)) = p

\* index of the first occurrence of sep in s at or after position i, 0 if none
RECURSIVE Find(_, _, _)
Find(s, sep, i) ==
    IF i + Len(sep) - 1 > Len(s) THEN 0
    ELSE IF SubSeq(s, i, i + Len(sep) - 1) = sep THEN i
    ELSE Find(s, sep, i + 1)

\* str.split(sep): the sequence of the pieces of s between occurrences of sep
RECURSIVE Split(_, _)
Split(s, sep) ==
    LET k == Find(s, sep, 1)
    IN  IF k = 0 THEN <<s>>
        ELSE <<SubSeq(s, 1, k - 1)>> \o Split(SubSeq(s, k + Len(sep), Len(s)), sep)

\* sep.join(parts)
RECURSIVE Join(_, _)
Join(parts, sep) ==
    IF parts = <<>> THEN ""
    ELSE IF Len(parts) = 1 THEN parts[1]
    ELSE parts[1] \o sep \o Join(Tail(parts), sep)

\* str.strip() for the blank character
RECURSIVE Strip(_)
Strip(s) ==
    IF s = "" THEN s
    ELSE IF Char(s, 1) = " " THEN Strip(SubSeq(s, 2, Len(s)))
    ELSE IF Char(s, Len(s)) = " " THEN Strip(SubSeq(s, 1, Len(s) - 1))
    ELSE s

\* str.replace(old, new): every non-overlapping occurrence, left to right
RECURSIVE ReplaceFrom(_, _, _)
ReplaceFrom(s, old, new) ==
    LET k == Find(s, old, 1)
    IN  IF k = 0 THEN s
        ELSE SubSeq(s, 1, k - 1) \o new
               \o ReplaceFrom(SubSeq(s, k + Len(old), Len(s)), old, new)

\* new placed before every character of s and after the last one
RECURSIVE Interleave(_, _)
Interleave(s, new) ==
    IF s = "" THEN new ELSE new \o Char(s, 1) \o Interleave(SubSeq(s, 2, Len(s)), new)

\* Replace that replaces the first occurrence only
ReplaceFirst(s, old, new) ==
    LET k == Find(s, old, 1)
    IN  IF k = 0 THEN s
        ELSE SubSeq(s, 1, k - 1) \o new \o SubSeq(s, k + Len(old), Len(s))

Replace(s, old, new) ==
    IF old = "" THEN Interleave(s, new) ELSE ReplaceFrom(s, old, new)

\* s repeated n times
RECURSIVE Repeat(_, _)
Repeat(s, n) ==
    IF n = 0 THEN ""
    ELSE IF n % 2 = 0 THEN LET h == Repeat(s, n \div 2) IN h \o h
    ELSE s \o Repeat(s, n - 1)

\* ------------------------------------------------------------------------
\* Paths (posixpath)
\* ------------------------------------------------------------------------

\* os.path.join(a, b)
PathJoin(a, b) ==
    IF StartsWith(b, "/") THEN b
    ELSE IF a = "" \/ EndsWith(a, "/") THEN a \o b
    ELSE a \o "/" \o b

\* the component loop of os.path.normpath
RECURSIVE NormComps(_, _, _)
NormComps(comps, acc, absolute) ==
    IF comps = <<>> THEN acc
    ELSE LET c == Head(comps)
             rest == Tail(comps)
         IN  IF c = "" \/ c = "." THEN NormComps(rest, acc, absolute)
             ELSE IF c # ".." \/ (~absolute /\ acc = <<>>)
                       \/ (acc # <<>> /\ acc[Len(acc)] = "..")
                  THEN NormComps(rest, Append(acc, c), absolute)
             ELSE IF acc # <<>>
                  THEN NormComps(rest, SubSeq(acc, 1, Len(acc) - 1), absolute)
             ELSE NormComps(rest, acc, absolute)

\* os.path.normpath(path)
NormPath(path) ==
    IF path = "" THEN "."
    ELSE LET slashes == IF ~StartsWith(path, "/") THEN ""
                        ELSE IF StartsWith(path, "//") /\ ~StartsWith(path, "///")
                             THEN "//" ELSE "/"
             body == Join(NormComps(Split(path, "/"), <<>>, slashes # ""), "/")
             res == slashes \o body
         IN  IF res = "" THEN "." ELSE res

\* os.path.dirname(path)
RECURSIVE LastSlash(_, _)
LastSlash(s, i) == IF i = 0 THEN 0 ELSE IF Char(s, i) = "/" THEN i ELSE LastSlash(s, i - 1)

DirName(path) ==
    LET k == LastSlash(path, Len(path))
        head == SubSeq(path, 1, k)
    IN  IF head = "" \/ head = Repeat("/", Len(head)) THEN head
        ELSE SubSeq(path, 1, k - 1)

\* the location p is dir itself or lies below it
Within(p, dir) == p = dir \/ StartsWith(p, dir \o "/")


\* ------------------------------------------------------------------------
\* Values
\* ------------------------------------------------------------------------

\* Python's None
None == "<None>"

\* truth value of a string or None
Truthy(v) == v # None /\ v # ""

\* a JSON object with the given fields, and a JSON value that is no object
JObject(fields) == [kind |-> "object", fields |-> fields]

JArray == [kind |-> "array"]

EmptyDict == JObject(<<>>)

IsMapping(v) == v.kind = "object"

\* dict.get(key, default)
Get(d, key, default) == IF key \in DOMAIN d.fields THEN d.fields[key] ELSE default

\* ------------------------------------------------------------------------
\* File system
\* ------------------------------------------------------------------------

TextFile(s) == [kind |-> "text", text |-> s]

\* the content json.dump(doc, f) leaves in a file
JsonDump(doc) == [kind |-> "json", doc |-> doc]

\* f.read() of a file
ReadText(c) == IF c.kind = "text" THEN c.text ELSE "<json document>"

\* os.path.exists(p)
Exists(fsys, p) == p \in fsys.dirs \/ p \in DOMAIN fsys.files

\* the directories above p, the root directory included
Ancestors(p) ==
    {SubSeq(p, 1, k - 1) : k \in {j \in 2..Len(p) : Char(p, j) = "/"}}
        \cup (IF StartsWith(p, "/") /\ p # "/" THEN {"/"} ELSE {})

\* os.makedirs(p, exist_ok=True)
MakeDirs(fsys, p) ==
    IF p = "" \/ \E q \in Ancestors(p) \cup {p} : q \in DOMAIN fsys.files
    THEN [ok |-> FALSE, fs |-> fsys, io |-> {}]
    ELSE [ok |-> TRUE,
          fs |-> [fsys EXCEPT !.dirs = @ \cup Ancestors(p) \cup {p}],
          io |-> {[op |-> "mkdir", path |-> q] : q \in (Ancestors(p) \cup {p}) \ fsys.dirs}]

\* open(p, 'w') followed by a write of the content
WriteFile(fsys, p, content) ==
    IF p \in fsys.dirs \/ DirName(p) \notin fsys.dirs
    THEN [ok |-> FALSE, fs |-> fsys, io |-> {}]
    ELSE [ok |-> TRUE,
          fs |-> [fsys EXCEPT !.files = (p :> content) @@ @],
          io |-> {[op |-> "write", path |-> p]}]

\* os.remove(p)
RemoveFile(fsys, p) ==
    IF p \notin DOMAIN fsys.files
    THEN [ok |-> FALSE, fs |-> fsys, io |-> {}]
    ELSE [ok |-> TRUE,
          fs |-> [fsys EXCEPT !.files = [q \in DOMAIN @ \ {p} |-> @[q]]],
          io |-> {[op |-> "remove", path |-> p]}]

\* ------------------------------------------------------------------------
\* ToolExecutor
\* ------------------------------------------------------------------------

\* What a tool function does: it returns a result mapping or raises, and
\* leaves the file system fs behind; io is the set of file-system accesses
\* (read, write, remove, mkdir) it made.
Returned(r, fsys, io) == [raised |-> FALSE, result |-> r, fs |-> fsys, io |-> io]

RaisedExc(msg, fsys, io) ==
    [raised |-> TRUE, result |-> [exception |-> msg], fs |-> fsys, io |-> io]

IsError(r) == "error" \in DOMAIN r

\* int(time.time()) rendered in the exercise id
TimeStr(now) == IF now = 0 THEN "1700000000" ELSE "170000000" \o ToString(now)

\* GenerateExercise that does not ask a fill_blank exercise for its answers
GenerateExerciseUnanswered(params, w, fsys, env) ==
    IF ~IsMapping(params)
    THEN RaisedExc("object has no attribute 'get'", fsys, {})
    ELSE IF Get(params, "question", "") = ""
    THEN Returned([error |-> "question must not be empty",
                   hint |-> "provide question, type, ..."], fsys, {})
    ELSE
    LET exercise_type == Get(params, "type", "choice")
        options == Get(params, "options", <<>>)
        blanks == Get(params, "blanks", <<>>)
        correct_answers == Get(params, "correct_answers", <<>>)
        exercise == [type |-> exercise_type,
                     question |-> Get(params, "question", ""),
                     options |-> options,
                     blanks |-> blanks,
                     correct_answers |-> correct_answers,
                     explanation |-> Get(params, "explanation", ""),
                     difficulty |-> Get(params, "difficulty", "medium")]
        exercise_id == "ex_" \o TimeStr(env.now)
        exercise_path == PathJoin(PathJoin(w.path, "exercises"), exercise_id \o ".json")
        wr == WriteFile(fsys, exercise_path, JsonDump(exercise))
    IN  IF exercise_type = "choice" /\ Len(options) < 2
        THEN Returned([error |-> "choice needs at least 2 options",
                       hint |-> "provide the options array"], fsys, {})
        ELSE IF exercise_type = "choice" /\ correct_answers = <<>>
        THEN Returned([error |-> "choice needs correct answers",
                       hint |-> "provide correct_answers"], fsys, {})
        ELSE IF exercise_type = "fill_blank" /\ blanks = <<>>
        THEN Returned([error |-> "fill_blank needs blanks",
                       hint |-> "provide blanks"], fsys, {})
        ELSE IF wr.ok
        THEN Returned([success |-> TRUE, exercise_id |-> exercise_id,
                       exercise |-> exercise], wr.fs, wr.io)
        ELSE Returned([error |-> "cannot open exercise file"], fsys, {})

\* ToolExecutor._generate_exercise
GenerateExercise(params, w, fsys, env) ==
    IF ~IsMapping(params)
    THEN RaisedExc("object has no attribute 'get'", fsys, {})
    ELSE IF Get(params, "question", "") = ""
    THEN Returned([error |-> "question must not be empty",
                   hint |-> "provide question, type, ..."], fsys, {})
    ELSE
    LET exercise_type == Get(params, "type", "choice")
        options == Get(params, "options", <<>>)
        blanks == Get(params, "blanks", <<>>)
        correct_answers == Get(params, "correct_answers", <<>>)
        exercise == [type |-> exercise_type,
                     question |-> Get(params, "question", ""),
                     options |-> options,
                     blanks |-> blanks,
                     correct_answers |-> correct_answers,
                     explanation |-> Get(params, "explanation", ""),
                     difficulty |-> Get(params, "difficulty", "medium")]
        exercise_id == "ex_" \o TimeStr(env.now)
        exercise_path == PathJoin(PathJoin(w.path, "exercises"), exercise_id \o ".json")
        wr == WriteFile(fsys, exercise_path, JsonDump(exercise))
    IN  IF exercise_type = "choice" /\ Len(options) < 2
        THEN Returned([error |-> "choice needs at least 2 options",
                       hint |-> "provide the options array"], fsys, {})
        ELSE IF exercise_type = "choice" /\ correct_answers = <<>>
        THEN Returned([error |-> "choice needs correct answers",
                       hint |-> "provide correct_answers"], fsys, {})
        ELSE IF exercise_type = "fill_blank" /\ blanks = <<>>
        THEN Returned([error |-> "fill_blank needs blanks",
                       hint |-> "provide blanks"], fsys, {})
        ELSE IF exercise_type = "fill_blank" /\ correct_answers = <<>>
        THEN Returned([error |-> "fill_blank needs correct answers",
                       hint |-> "provide correct_answers"], fsys, {})
        ELSE IF wr.ok
        THEN Returned([success |-> TRUE, exercise_id |-> exercise_id,
                       exercise |-> exercise], wr.fs, wr.io)
        ELSE Returned([error |-> "cannot open exercise file"], fsys, {})

\* WebSearch that raises when no provider is configured
WebSearchUnconfiguredRaising(params, w, fsys, env) ==
    IF env.provider = "" \/ env.api_key = ""
    THEN RaisedExc("search is not configured", fsys, {})
    ELSE IF ~IsMapping(params)
    THEN RaisedExc("object has no attribute 'get'", fsys, {})
    ELSE IF env.provider = "tavily"
    THEN CASE env.search = "ok" ->
                Returned([success |-> TRUE,
                          results |-> <<[title |-> "t", url |-> "u",
                                         content |-> Get(params, "query", "")]>>],
                         fsys, {})
           [] env.search = "status" ->
                Returned([error |-> "Tavily API error: 500", results |-> <<>>], fsys, {})
           [] OTHER ->
                Returned([error |-> "connection failed", results |-> <<>>], fsys, {})
    ELSE Returned([error |-> "unsupported search provider: " \o env.provider,
                   results |-> <<>>], fsys, {})

\* ToolExecutor._web_search with _search_tavily; env.search is what the
\* provider's HTTP endpoint does with the request
WebSearch(params, w, fsys, env) ==
    IF env.provider = "" \/ env.api_key = ""
    THEN Returned([error |-> "search is not configured", results |-> <<>>], fsys, {})
    ELSE IF ~IsMapping(params)
    THEN RaisedExc("object has no attribute 'get'", fsys, {})
    ELSE IF env.provider = "tavily"
    THEN CASE env.search = "ok" ->
                Returned([success |-> TRUE,
                          results |-> <<[title |-> "t", url |-> "u",
                                         content |-> Get(params, "query", "")]>>],
                         fsys, {})
           [] env.search = "status" ->
                Returned([error |-> "Tavily API error: 500", results |-> <<>>], fsys, {})
           [] OTHER ->
                Returned([error |-> "connection failed", results |-> <<>>], fsys, {})
    ELSE Returned([error |-> "unsupported search provider: " \o env.provider,
                   results |-> <<>>], fsys, {})

\* EditParts that takes an instruction without separator as old text with
\* an empty new text
EditPartsPadded(edit_instruction) ==
    IF Find(edit_instruction, "->", 1) = 0 THEN <<edit_instruction, "">>
    ELSE Split(edit_instruction, "->")

\* edit_instruction.split('->'), whose elements 0 and 1 the edit reads
EditParts(edit_instruction) == Split(edit_instruction, "->")

\* the try block of ToolExecutor._file_system: the action on the checked path
FileSystemAction(action, path, content, edit_instruction, full_path, fsys) ==
    LET failed(io) == Returned([error |-> "I/O error",
                                hint |-> "check the format of the parameters"], fsys, io)
        notfound == Returned([error |-> "file not found: " \o path,
                              hint |-> "check the path"], fsys, {})
    IN
    CASE action = "read" ->
            IF ~Exists(fsys, full_path) THEN notfound
            ELSE IF full_path \in fsys.dirs THEN failed({})
            ELSE Returned([success |-> TRUE,
                           content |-> ReadText(fsys.files[full_path])],
                          fsys, {[op |-> "read", path |-> full_path]})
      [] action = "write" ->
            LET md == MakeDirs(fsys, DirName(full_path))
                wr == WriteFile(md.fs, full_path, TextFile(content))
            IN  IF ~md.ok THEN failed({})
                ELSE IF ~wr.ok
                THEN Returned([error |-> "I/O error",
                               hint |-> "check the format of the parameters"],
                              md.fs, md.io)
                ELSE Returned([success |-> TRUE, message |-> "file written: " \o path],
                              wr.fs, md.io \cup wr.io)
      [] action = "edit" ->
            IF ~Exists(fsys, full_path) THEN notfound
            ELSE IF full_path \in fsys.dirs THEN failed({})
            ELSE
            LET original == ReadText(fsys.files[full_path])
                parts == EditParts(edit_instruction)
                rd == {[op |-> "read", path |-> full_path]}
            IN  IF Len(parts) < 2
                THEN Returned([error |-> "malformed edit_instruction",
                               hint |-> "format: old text->new text"], fsys, rd)
                ELSE LET old_text == Strip(parts[1])
                         new_text == Strip(parts[2])
                         modified == Replace(original, old_text, new_text)
                         wr == WriteFile(fsys, full_path, TextFile(modified))
                     IN  Returned([success |-> TRUE, message |-> "file edited: " \o path],
                                  wr.fs, rd \cup wr.io)
      [] action = "delete" ->
            IF ~Exists(fsys, full_path) THEN notfound
            ELSE LET rm == RemoveFile(fsys, full_path)
                 IN  IF ~rm.ok THEN failed({})
                     ELSE Returned([success |-> TRUE, message |-> "file deleted: " \o path],
                                   rm.fs, rm.io)
      [] OTHER ->
            LET md == MakeDirs(fsys, full_path)
            IN  IF ~md.ok THEN failed({})
                ELSE Returned([success |-> TRUE, message |-> "directory created: " \o path],
                              md.fs, md.io)

\* the containment test of ToolExecutor._file_system
PathAllowed(full_path, w) == StartsWith(full_path, w.path)

\* ToolExecutor._file_system
FileSystem(params, w, fsys, env) ==
    IF ~IsMapping(params)
    THEN RaisedExc("object has no attribute 'get'", fsys, {})
    ELSE
    LET action == Get(params, "action", "")
        path == Get(params, "path", "")
        content == Get(params, "content", "")
        edit_instruction == Get(params, "edit_instruction", "")
        full_path == NormPath(PathJoin(w.path, path))
    IN  IF action = ""
        THEN Returned([error |-> "missing parameter: action",
                       hint |-> "action is one of read/write/edit/delete/mkdir"], fsys, {})
        ELSE IF path = ""
        THEN Returned([error |-> "missing parameter: path",
                       hint |-> "path names a file or directory"], fsys, {})
        ELSE IF action \notin {"read", "write", "edit", "delete", "mkdir"}
        THEN Returned([error |-> "invalid action: " \o action,
                       hint |-> "action is one of read/write/edit/delete/mkdir"], fsys, {})
        ELSE IF action = "write" /\ content = ""
        THEN Returned([error |-> "write needs content",
                       hint |-> "provide the content to write"], fsys, {})
        ELSE IF action = "edit" /\ edit_instruction = ""
        THEN Returned([error |-> "edit needs edit_instruction",
                       hint |-> "format: old text->new text"], fsys, {})
        ELSE IF ~PathAllowed(full_path, w)
        THEN Returned([error |-> "illegal path",
                       hint |-> "the path must lie in the workspace"], fsys, {})
        ELSE FileSystemAction(action, path, content, edit_instruction, full_path, fsys)

\* EndInquiry that records the summary in a file of the session
EndInquiryRecording(params, w, fsys, env) ==
    IF ~IsMapping(params)
    THEN RaisedExc("object has no attribute 'get'", fsys, {})
    ELSE Returned([success |-> TRUE,
                   message |-> "inquiry finished, the study plan can be generated",
                   summary |-> Get(params, "summary", ""),
                   inquiry_complete |-> TRUE],
                  WriteFile(fsys, PathJoin(w.path, "inquiry.md"),
                            TextFile(Get(params, "summary", ""))).fs,
                  {})

\* ToolExecutor._end_inquiry
EndInquiry(params, w, fsys, env) ==
    IF ~IsMapping(params)
    THEN RaisedExc("object has no attribute 'get'", fsys, {})
    ELSE Returned([success |-> TRUE,
                   message |-> "inquiry finished, the study plan can be generated",
                   summary |-> Get(params, "summary", ""),
                   inquiry_complete |-> TRUE], fsys, {})

\* the keys of ToolExecutor.tools
Tools == {"generate_exercise", "web_search", "file_system", "end_inquiry"}

\* self.tools[tool_name](params, workspace)
CallTool(tool_name, params, w, fsys, env) ==
    CASE tool_name = "generate_exercise" -> GenerateExercise(params, w, fsys, env)
      [] tool_name = "web_search" -> WebSearch(params, w, fsys, env)
      [] tool_name = "file_system" -> FileSystem(params, w, fsys, env)
      [] OTHER -> EndInquiry(params, w, fsys, env)

\* ToolExecutor.execute without its try/except
ExecuteUnguarded(tool_name, params, w, fsys, env) ==
    IF tool_name \notin Tools
    THEN Returned([error |-> "unknown tool: " \o tool_name], fsys, {})
    ELSE CallTool(tool_name, params, w, fsys, env)

\* Execute that looks the tool up without testing that it is registered: the
\* KeyError of the lookup is what the caller gets as error
ExecuteUnregistered(tool_name, params, w, fsys, env) ==
    LET r == CallTool(tool_name, params, w, fsys, env)
    IN  IF tool_name \notin Tools
        THEN Returned([error |-> "'" \o tool_name \o "'"], fsys, {})
        ELSE IF r.raised
        THEN Returned([error |-> r.result.exception], r.fs, r.io)
        ELSE r

\* ToolExecutor.execute
Execute(tool_name, params, w, fsys, env) ==
    IF tool_name \notin Tools
    THEN Returned([error |-> "unknown tool: " \o tool_name], fsys, {})
    ELSE LET r == CallTool(tool_name, params, w, fsys, env)
         IN  IF r.raised
             THEN Returned([error |-> r.result.exception], r.fs, r.io)
             ELSE r

\* ------------------------------------------------------------------------
\* JSON texts of the model's vocabulary
\* ------------------------------------------------------------------------

ArgsWrite == "{\"action\": \"write\", \"path\": \"n.md\", \"content\": \"foo baz foo\"}"

ArgsSearch == "{\"query\": \"q\"}"

ArgsSummary == "{\"summary\": \"wants algebra\"}"

\* the two fragments in which a stream may deliver ArgsWrite
ArgsWriteHead == SubSeq(ArgsWrite, 1, 20)

ArgsWriteTail == SubSeq(ArgsWrite, 21, Len(ArgsWrite))

ParamsWrite == JObject([action |-> "write", path |-> "n.md", content |-> "foo baz foo"])

ParamsSearch == JObject([query |-> "q"])

ParamsSummary == JObject([summary |-> "wants algebra"])

\* json.loads(s): the parsed value, or a JSONDecodeError
JsonLoads(s) ==
    CASE s = ArgsWrite -> [ok |-> TRUE, value |-> ParamsWrite]
      [] s = ArgsSearch -> [ok |-> TRUE, value |-> ParamsSearch]
      [] s = ArgsSummary -> [ok |-> TRUE, value |-> ParamsSummary]
      [] s = "{}" -> [ok |-> TRUE, value |-> EmptyDict]
      [] s = "[]" -> [ok |-> TRUE, value |-> JArray]
      [] OTHER -> [ok |-> FALSE, value |-> EmptyDict]

\* json.dumps(v) of a parsed argument value
JsonDumpsArgs(v) ==
    CASE v = ParamsWrite -> ArgsWrite
      [] v = ParamsSearch -> ArgsSearch
      [] v = ParamsSummary -> ArgsSummary
      [] v = JArray -> "[]"
      [] OTHER -> "{}"

\* json.dumps(result) of a tool result: its keys in insertion order, strings
\* quoted, nested values abbreviated
JsonDumpsResult(r) ==
    LET order == <<"success", "error", "hint", "exercise_id", "exercise", "content",
                   "message", "results", "summary", "inquiry_complete">>
        Present(k) == k \in DOMAIN r
        keys == SelectSeq(order, Present)
        Value(k) ==
            CASE k \in {"success", "inquiry_complete"} -> "true"
              [] k = "exercise" -> "{...}"
              [] k = "results" -> IF r[k] = <<>> THEN "[]" ELSE "[{...}]"
              [] OTHER -> "\"" \o r[k] \o "\""
        Items == [n \in 1..Len(keys) |-> "\"" \o keys[n] \o "\": " \o Value(keys[n])]
    IN  "{" \o Join(Items, ", ") \o "}"

\* ------------------------------------------------------------------------
\* LLMService: the gateway as its consumers see it
\* ------------------------------------------------------------------------

\* A chunk is what json.loads makes of one "data: " line.
ErrorChunk(msg) == [kind |-> "error", error |-> msg]

ContentChunk(text) == [kind |-> "delta", content |-> text]

ToolCallChunk(tcs) == [kind |-> "delta", tool_calls |-> tcs]

\* LLMService.chat_completion with stream=True, for a transport that answers
\* with a status, delivers some lines and may then fail: the chunks yielded
ChatCompletion(transport) ==
    IF transport.status # 200
    THEN <<ErrorChunk("LLM API error: " \o ToString(transport.status))>>
    ELSE LET IsJson(c) == c.kind # "malformed"
         IN  SelectSeq(transport.lines, IsJson)
               \o (IF transport.fails THEN <<ErrorChunk("connection broken")>> ELSE <<>>)

\* LLMService.chat_completion with stream=False: the chunks yielded
ChatCompletionBlocking(transport) ==
    CASE transport.outcome = "ok" ->
            <<[kind |-> "response", choices |-> <<[message |-> [content |-> transport.text]]>>]>>
      [] transport.outcome = "status" -> <<ErrorChunk("LLM API error: 500")>>
      [] OTHER -> <<ErrorChunk("timed out")>>

CompressionFailed == "[Context compression failed - using recent messages only]"

CompressionError == "[Context compression error]"

\* CompressContext with the sentinel of a refused request for every failure
CompressContextOneSentinel(transport) ==
    IF transport.outcome = "ok" THEN transport.text ELSE CompressionFailed

\* LLMService.compress_context: the summary returned for what the endpoint
\* does: it answers with status 200 and a text, with another status, not at
\* all (exception, timeout), or with status 200 and a body without
\* choices[0].message.content, whose KeyError the handler catches
CompressContext(transport) ==
    CASE transport.outcome = "ok" -> transport.text
      [] transport.outcome = "status" -> CompressionFailed
      [] OTHER -> CompressionError

\* ------------------------------------------------------------------------
\* ConfigManager and WorkspaceManager
\* ------------------------------------------------------------------------

\* ConfigManager.get_workspace_root
WorkspaceRoot == "/w"

\* ConfigManager.get_model_max_context for the default model
ModelMaxContext(cfg) == cfg.max_context * 1000

\* int(max_context * 0.8)
TokenThreshold(cfg) == (ModelMaxContext(cfg) * 8) \div 10

\* the strings seq[lo], ..., seq[hi] concatenated
RECURSIVE Concat(_, _, _)
Concat(seq, lo, hi) ==
    IF lo > hi THEN ""
    ELSE IF lo = hi THEN seq[lo]
    ELSE Concat(seq, lo, (lo + hi) \div 2) \o Concat(seq, ((lo + hi) \div 2) + 1, hi)

\* WorkspaceManager._sanitize_filename: re.sub(r'[<>:"/\\|?*]', '', name)
RemoveIllegal(name) ==
    LET Legal(c) == c \notin {"<", ">", ":", "\"", "/", "\\", "|", "?", "*"}
        kept == SelectSeq([i \in 1..Len(name) |-> Char(name, i)], Legal)
    IN  Concat(kept, 1, Len(kept))

\* SanitizeFilename that does not limit the length
SanitizeFilenameUncut(name) == Strip(RemoveIllegal(name))

SanitizeFilename(name) ==
    LET cleaned == RemoveIllegal(name)
    IN  Strip(SubSeq(cleaned, 1, IF Len(cleaned) < 50 THEN Len(cleaned) ELSE 50))

\* datetime.now().strftime("%Y%m%d_%H%M%S") at clock second now
Timestamp(now) == "20260101_00000" \o ToString(now)

\* the id create_workspace gives a session
WorkspaceIdOf(theme, now) == Timestamp(now) \o "_" \o SanitizeFilename(theme)

\* the Workspace dataclass (theme and created_at carry no behaviour and are
\* left out); a new Workspace has the dataclass defaults
Workspace(id, path, phase, count, threshold, messages, compressed) ==
    [id |-> id, path |-> path, current_phase |-> phase, token_count |-> count,
     token_threshold |-> threshold, messages |-> messages,
     compressed_context |-> compressed]

\* WorkspaceManager.create_workspace, followed by the agents.md the
\* create_workspace route writes: the session and the file system left
CreateWorkspace(theme, now, fsys, cfg) ==
    LET workspace_id == WorkspaceIdOf(theme, now)
        path == PathJoin(WorkspaceRoot, workspace_id)
        d1 == MakeDirs(fsys, path)
        d2 == MakeDirs(d1.fs, PathJoin(path, "notes"))
        d3 == MakeDirs(d2.fs, PathJoin(path, "exercises"))
        ag == WriteFile(d3.fs, PathJoin(path, "agents.md"), TextFile("Theme: " \o theme))
    IN  [workspace |-> Workspace(workspace_id, path, "init", 0, TokenThreshold(cfg),
                                 <<>>, ""),
         fs |-> ag.fs]

\* StateRecord without the threshold
StateRecordWithoutThreshold(w) ==
    [current_phase |-> w.current_phase,
     token_count |-> w.token_count,
     compressed_context |-> w.compressed_context]

\* StateRecord without the compressed summary
StateRecordWithoutSummary(w) ==
    [current_phase |-> w.current_phase,
     token_count |-> w.token_count,
     token_threshold |-> w.token_threshold]

\* the state record save_workspace dumps to workspace_state.json
StateRecord(w) ==
    [current_phase |-> w.current_phase,
     token_count |-> w.token_count,
     token_threshold |-> w.token_threshold,
     compressed_context |-> w.compressed_context]

\* WorkspaceManager.save_workspace: the file system left behind.  disk is
\* what the storage does: "ok", or the write of one artifact fails
SaveWorkspace(w, fsys, disk) ==
    LET h == WriteFile(fsys, PathJoin(w.path, "history.json"), JsonDump(w.messages))
        st == WriteFile(h.fs, PathJoin(w.path, "workspace_state.json"),
                        JsonDump(StateRecord(w)))
    IN  IF disk = "fail_history" \/ ~h.ok THEN fsys
        ELSE IF disk = "fail_state" \/ ~st.ok THEN h.fs
        ELSE st.fs

\* save_workspace wrote both artifacts
SaveSucceeded(w, fsys, disk) ==
    LET h == WriteFile(fsys, PathJoin(w.path, "history.json"), JsonDump(w.messages))
        st == WriteFile(h.fs, PathJoin(w.path, "workspace_state.json"),
                        JsonDump(StateRecord(w)))
    IN  disk = "ok" /\ h.ok /\ st.ok

\* the directory the operating system reaches from cur along the components
\* comps of a path ("." stays, ".." goes to the parent), None when it has to
\* pass through something that is no directory
RECURSIVE Walk(_, _, _)
Walk(fsys, cur, comps) ==
    IF comps = <<>> THEN cur
    ELSE IF cur \notin fsys.dirs THEN None
    ELSE IF Head(comps) \in {"", "."} THEN Walk(fsys, cur, Tail(comps))
    ELSE IF Head(comps) = ".."
    THEN Walk(fsys, IF cur = "/" THEN "/" ELSE DirName(cur), Tail(comps))
    ELSE Walk(fsys, PathJoin(cur, Head(comps)), Tail(comps))

\* the location an absolute path names in the file system, None when
\* os.path.exists(path) is false
RealPath(fsys, path) ==
    CHOOSE p \in {IF r # None /\ Exists(fsys, r) THEN r ELSE None :
                    r \in {Walk(fsys, "/", Split(path, "/"))}} : TRUE

\* WorkspaceManager._load_workspace_from_disk for the path that names the
\* directory dir: found is FALSE for None
LoadWorkspaceFromDir(workspace_id, path, dir, fsys, cfg) ==
    LET agents_path == PathJoin(dir, "agents.md")
        history_path == PathJoin(dir, "history.json")
        state_path == PathJoin(dir, "workspace_state.json")
        unreadable(q) == q \in fsys.dirs
        history == IF history_path \in DOMAIN fsys.files
                   THEN fsys.files[history_path] ELSE JsonDump(<<>>)
        history_ok == history.kind = "json" \/ history.text = "[]"
        messages == IF history.kind = "json" THEN history.doc ELSE <<>>
        state == IF state_path \in DOMAIN fsys.files
                    /\ fsys.files[state_path].kind = "json"
                 THEN fsys.files[state_path].doc ELSE <<>>
        StateGet(key, default) == IF key \in DOMAIN state THEN state[key] ELSE default
    IN  IF unreadable(agents_path) \/ unreadable(history_path) \/ ~history_ok
        THEN [found |-> FALSE]
        ELSE [found |-> TRUE,
              workspace |-> Workspace(workspace_id, path,
                                      StateGet("current_phase", "inquiry"),
                                      StateGet("token_count", 0),
                                      StateGet("token_threshold", TokenThreshold(cfg)),
                                      messages,
                                      StateGet("compressed_context", ""))]

\* WorkspaceManager._load_workspace_from_disk: found is FALSE for None
LoadWorkspaceFromDisk(workspace_id, path, fsys, cfg) ==
    CHOOSE l \in {LoadWorkspaceFromDir(workspace_id, path,
                                       IF dir = None THEN path ELSE dir, fsys, cfg) :
                    dir \in {RealPath(fsys, path)}} : TRUE

\* WorkspaceManager.get_workspace: the session found, if any, and the cache left
GetWorkspace(workspace_id, cache, fsys, cfg) ==
    LET path == PathJoin(WorkspaceRoot, workspace_id)
        loaded == LoadWorkspaceFromDisk(workspace_id, path, fsys, cfg)
    IN  IF workspace_id \in DOMAIN cache
        THEN [found |-> TRUE, workspace |-> cache[workspace_id], cache |-> cache]
        ELSE IF RealPath(fsys, path) # None /\ loaded.found
        THEN [found |-> TRUE, workspace |-> loaded.workspace,
              cache |-> (workspace_id :> loaded.workspace) @@ cache]
        ELSE [found |-> FALSE, cache |-> cache]

\* ------------------------------------------------------------------------
\* Events sent to the caller
\* ------------------------------------------------------------------------

ContentEvent(text) == [type |-> "content", content |-> text]

ErrorEvent(msg) == [type |-> "error", error |-> msg]

ToolStarted(name) == [type |-> "tool_call", name |-> name, status |-> "started"]

ToolCompleted(name, result) ==
    [type |-> "tool_call", name |-> name, status |-> "completed", result |-> result]

ExerciseEvent(exercise) == [type |-> "exercise", exercise |-> exercise]

StatusEvent(status) == [type |-> "status", status |-> status]

InquiryComplete(summary) == [type |-> "inquiry_complete", summary |-> summary]

DoneEvent(token_count) == [type |-> "done", token_count |-> token_count]

InquiryDone(full_response) == [type |-> "done", full_response |-> full_response]

\* the line "data: [DONE]" that ends a stream
EndMarker == [type |-> "end"]

\* ------------------------------------------------------------------------
\* teaching_chat
\* ------------------------------------------------------------------------

\* the tools offered to the model in a teaching turn
TeachingTools == {"generate_exercise", "web_search", "file_system"}

\* teaching_chat: the messages of the request to the model: the system
\* prompt, of which the lesson context is kept, the log of the session and
\* the user message
TeachingRequest(w, user_input) ==
    <<[role |-> "system",
       lesson_context |-> IF Truthy(w.compressed_context)
                          THEN "[LESSON_CONTEXT - Compressed]\n" \o w.compressed_context
                          ELSE ""]>>
        \o w.messages
        \o <<[role |-> "user", content |-> user_input]>>

\* the local variables of teaching_chat.generate before the stream is read
TeachingStart ==
    [full_response |-> "", tool_call_id |-> None, tool_name |-> None,
     tool_args |-> EmptyDict, events |-> <<>>, error |-> FALSE]

\* teaching_chat.generate: one element tc of delta['tool_calls']
TeachingToolCall(acc, tc) ==
    LET has_fn == "function" \in DOMAIN tc
        has_name == has_fn /\ "name" \in DOMAIN tc.function
        has_args == has_fn /\ "arguments" \in DOMAIN tc.function
        parsed == JsonLoads(tc.function.arguments)
    IN  [acc EXCEPT
            !.tool_call_id = IF "id" \in DOMAIN tc THEN tc.id ELSE @,
            !.tool_name = IF has_name THEN tc.function.name ELSE @,
            !.events = IF has_name THEN Append(@, ToolStarted(tc.function.name)) ELSE @,
            !.tool_args = IF has_args
                          THEN (IF parsed.ok THEN parsed.value ELSE EmptyDict)
                          ELSE @]

RECURSIVE TeachingToolCalls(_, _)
TeachingToolCalls(acc, tcs) ==
    IF tcs = <<>> THEN acc
    ELSE TeachingToolCalls(TeachingToolCall(acc, Head(tcs)), Tail(tcs))

\* TeachingChunk that reports an error chunk and goes on with the turn
TeachingChunkCarryingOn(acc, chunk) ==
    IF chunk.kind = "error"
    THEN [acc EXCEPT !.events = Append(@, ErrorEvent(chunk.error))]
    ELSE IF chunk.kind # "delta" THEN acc
    ELSE LET a1 == IF "tool_calls" \in DOMAIN chunk
                   THEN TeachingToolCalls(acc, chunk.tool_calls) ELSE acc
             content == IF "content" \in DOMAIN chunk THEN chunk.content ELSE ""
         IN  IF content = "" THEN a1
             ELSE [a1 EXCEPT !.full_response = @ \o content,
                             !.events = Append(@, ContentEvent(content))]

\* teaching_chat.generate: the body of the loop for one chunk
TeachingChunk(acc, chunk) ==
    IF chunk.kind = "error"
    THEN [acc EXCEPT !.events = Append(@, ErrorEvent(chunk.error)), !.error = TRUE]
    ELSE IF chunk.kind # "delta" THEN acc
    ELSE LET a1 == IF "tool_calls" \in DOMAIN chunk
                   THEN TeachingToolCalls(acc, chunk.tool_calls) ELSE acc
             content == IF "content" \in DOMAIN chunk THEN chunk.content ELSE ""
         IN  IF content = "" THEN a1
             ELSE [a1 EXCEPT !.full_response = @ \o content,
                             !.events = Append(@, ContentEvent(content))]

\* teaching_chat.generate: the loop over the chunks, left at an error chunk
RECURSIVE TeachingLoop(_, _)
TeachingLoop(acc, stream) ==
    IF stream = <<>> \/ acc.error THEN acc
    ELSE TeachingLoop(TeachingChunk(acc, Head(stream)), Tail(stream))

\* PendingCalls executing the call once per tool name announced in the stream
PendingCallsPerName(acc) ==
    LET Started(e) == e.type = "tool_call"
        n == Len(SelectSeq(acc.events, Started))
    IN  IF Truthy(acc.tool_name) /\ Truthy(acc.tool_call_id)
        THEN [k \in 1..n |->
                [id |-> acc.tool_call_id, name |-> acc.tool_name, args |-> acc.tool_args]]
        ELSE <<>>

\* the tool calls a teaching turn executes once the stream has ended
PendingCalls(acc) ==
    IF Truthy(acc.tool_name) /\ Truthy(acc.tool_call_id)
    THEN <<[id |-> acc.tool_call_id, name |-> acc.tool_name, args |-> acc.tool_args]>>
    ELSE <<>>

\* ToolTurnMessages with a tool result that refers to the tool by its name
ToolTurnMessagesByName(user_input, full_response, call, tool_result) ==
    << [role |-> "user", content |-> user_input],
       [role |-> "assistant", content |-> full_response,
        tool_calls |-> <<[id |-> call.id,
                          function |-> [name |-> call.name,
                                        arguments |-> JsonDumpsArgs(call.args)]]>>],
       [role |-> "tool", content |-> JsonDumpsResult(tool_result),
        tool_call_id |-> call.name] >>

\* the messages a turn with a tool call appends to the log
ToolTurnMessages(user_input, full_response, call, tool_result) ==
    << [role |-> "user", content |-> user_input],
       [role |-> "assistant", content |-> full_response,
        tool_calls |-> <<[id |-> call.id,
                          function |-> [name |-> call.name,
                                        arguments |-> JsonDumpsArgs(call.args)]]>>],
       [role |-> "tool", content |-> JsonDumpsResult(tool_result),
        tool_call_id |-> call.id] >>

\* PlainTurnMessages without the user message
PlainTurnMessagesAnswerOnly(user_input, full_response) ==
    << [role |-> "assistant", content |-> full_response] >>

\* the messages a turn without tool call appends to the log
PlainTurnMessages(user_input, full_response) ==
    << [role |-> "user", content |-> user_input],
       [role |-> "assistant", content |-> full_response] >>

\* teaching_chat.generate: what the execution of one call with result r
\* leaves; st holds the session, the file system, the events and the record
\* of the executions
AfterCall(st, call, r, user_input, full_response) ==
    [st EXCEPT
        !.workspace.messages =
            @ \o ToolTurnMessages(user_input, full_response, call, r.result),
        !.fs = r.fs,
        !.io = @ \cup r.io,
        !.events = @ \o <<ToolCompleted(call.name, r.result)>>
                     \o (IF call.name = "generate_exercise" /\ "exercise" \in DOMAIN r.result
                         THEN <<ExerciseEvent(r.result.exercise)>> ELSE <<>>),
        !.executed = Append(@, [name |-> call.name, args |-> call.args, id |-> call.id])]

\* teaching_chat.generate: execution of the pending calls
RECURSIVE RunCalls(_, _, _, _, _)
RunCalls(st, calls, user_input, full_response, env) ==
    IF calls = <<>> THEN st
    ELSE RunCalls(AfterCall(st, Head(calls),
                            Execute(Head(calls).name, Head(calls).args, st.workspace,
                                    st.fs, env),
                            user_input, full_response),
                  Tail(calls), user_input, full_response, env)

\* TokenCount that rounds the quarter of each content length up
RECURSIVE TokenCountRoundedUp(_)
TokenCountRoundedUp(messages) ==
    IF messages = <<>> THEN 0
    ELSE ((Len(messages[1].content) + 3) \div 4) + TokenCountRoundedUp(Tail(messages))

\* sum(len(m['content']) // 4 for m in messages)
RECURSIVE TokenCount(_)
TokenCount(messages) ==
    IF messages = <<>> THEN 0
    ELSE (Len(messages[1].content) \div 4) + TokenCount(Tail(messages))

\* NeedsCompression that does not look at the summary the session holds
NeedsCompressionAgain(w) == w.token_count > w.token_threshold

\* the condition under which a turn compresses the context
NeedsCompression(w) == w.token_count > w.token_threshold /\ ~Truthy(w.compressed_context)

\* TurnMessages with a turn without tool call that starts the log afresh
TurnMessagesReplacing(st, calls, acc, user_input, env) ==
    IF calls # <<>>
    THEN RunCalls(st, calls, user_input, acc.full_response, env)
    ELSE [st EXCEPT !.workspace.messages =
                        PlainTurnMessages(user_input, acc.full_response)]

\* teaching_chat.generate: the log once the stream has ended, with a tool
\* call and without
TurnMessages(st, calls, acc, user_input, env) ==
    IF calls # <<>>
    THEN RunCalls(st, calls, user_input, acc.full_response, env)
    ELSE [st EXCEPT !.workspace.messages =
                        @ \o PlainTurnMessages(user_input, acc.full_response)]

\* teaching_chat.generate: the token estimate of the log
Counted(st) ==
    [st EXCEPT !.workspace.token_count = TokenCount(st.workspace.messages)]

\* Compressed with a compression that leaves of the log the messages of the
\* last turn only
CompressedTruncating(st, compression) ==
    IF NeedsCompression(st.workspace)
    THEN [st EXCEPT !.workspace.compressed_context = CompressContext(compression),
                    !.workspace.messages =
                        SubSeq(@, IF Len(@) > 3 THEN Len(@) - 2 ELSE 1, Len(@)),
                    !.events = @ \o <<StatusEvent("compressing_context"),
                                      StatusEvent("context_compressed")>>,
                    !.compressions = 1]
    ELSE st

\* teaching_chat.generate: the compression of the context when it is due
Compressed(st, compression) ==
    IF NeedsCompression(st.workspace)
    THEN [st EXCEPT !.workspace.compressed_context = CompressContext(compression),
                    !.events = @ \o <<StatusEvent("compressing_context"),
                                      StatusEvent("context_compressed")>>,
                    !.compressions = 1]
    ELSE st

\* Saved with a save_workspace that raises when a write fails: the turn ends
\* there, without done
SavedRaising(st, disk) ==
    [workspace |-> st.workspace,
     fs |-> SaveWorkspace(st.workspace, st.fs, disk),
     saved |-> IF SaveSucceeded(st.workspace, st.fs, disk) THEN "ok" ELSE "failed",
     io |-> st.io,
     events |-> IF SaveSucceeded(st.workspace, st.fs, disk)
                THEN st.events \o <<DoneEvent(st.workspace.token_count), EndMarker>>
                ELSE st.events,
     executed |-> st.executed,
     compressions |-> st.compressions,
     completed |-> SaveSucceeded(st.workspace, st.fs, disk)]

\* teaching_chat.generate: the save and the end of the event stream
Saved(st, disk) ==
    [workspace |-> st.workspace,
     fs |-> SaveWorkspace(st.workspace, st.fs, disk),
     saved |-> IF SaveSucceeded(st.workspace, st.fs, disk) THEN "ok" ELSE "failed",
     io |-> st.io,
     events |-> st.events \o <<DoneEvent(st.workspace.token_count), EndMarker>>,
     executed |-> st.executed,
     compressions |-> st.compressions,
     completed |-> TRUE]

\* teaching_chat.generate once the loop over the chunks has left acc
TurnAfterStream(w, user_input, acc, compression, disk, fsys, env) ==
    IF acc.error
    THEN [workspace |-> w, fs |-> fsys, io |-> {}, events |-> acc.events,
          executed |-> <<>>, compressions |-> 0, completed |-> FALSE,
          saved |-> "none"]
    ELSE Saved(Compressed(Counted(TurnMessages(
                    [workspace |-> w, fs |-> fsys, io |-> {}, events |-> acc.events,
                     executed |-> <<>>, compressions |-> 0],
                    PendingCalls(acc), acc, user_input, env)), compression), disk)

\* teaching_chat.generate for the chunks the gateway yields: the session, the
\* file system, the events, the executions and the number of compressions
TeachingTurn(w, user_input, stream, compression, disk, fsys, env) ==
    TurnAfterStream(w, user_input, TeachingLoop(TeachingStart, stream), compression, disk,
                    fsys, env)

\* ------------------------------------------------------------------------
\* inquiry_chat
\* ------------------------------------------------------------------------

\* inquiry_tools: the tools offered to the model in an inquiry turn
InquiryTools == {"end_inquiry"}

FallbackSummary == "AI has collected enough information"

\* the local variables of inquiry_chat.generate before the stream is read
InquiryStart ==
    [full_response |-> "", tool_calls_buffer |-> <<>>, events |-> <<>>, error |-> FALSE]

\* inquiry_chat.generate: one element tc of delta['tool_calls']
InquiryToolCall(acc, tc) ==
    [acc EXCEPT
        !.tool_calls_buffer = Append(@, tc),
        !.events = IF "function" \in DOMAIN tc /\ "name" \in DOMAIN tc.function
                   THEN Append(@, ToolStarted(tc.function.name)) ELSE @]

RECURSIVE InquiryToolCalls(_, _)
InquiryToolCalls(acc, tcs) ==
    IF tcs = <<>> THEN acc
    ELSE InquiryToolCalls(InquiryToolCall(acc, Head(tcs)), Tail(tcs))

\* inquiry_chat.generate: the body of the loop for one chunk
InquiryChunk(acc, chunk) ==
    IF chunk.kind = "error"
    THEN [acc EXCEPT !.events = Append(@, ErrorEvent(chunk.error)), !.error = TRUE]
    ELSE IF chunk.kind # "delta" THEN acc
    ELSE LET a1 == IF "tool_calls" \in DOMAIN chunk
                   THEN InquiryToolCalls(acc, chunk.tool_calls) ELSE acc
             content == IF "content" \in DOMAIN chunk THEN chunk.content ELSE ""
         IN  IF content = "" THEN a1
             ELSE [a1 EXCEPT !.full_response = @ \o content,
                             !.events = Append(@, ContentEvent(content))]

RECURSIVE InquiryLoop(_, _)
InquiryLoop(acc, stream) ==
    IF stream = <<>> \/ acc.error THEN acc
    ELSE InquiryLoop(InquiryChunk(acc, Head(stream)), Tail(stream))

\* InquiryExecutes passing every named call on to the executor
InquiryExecutesAny(tc) == tc.function.name

\* the tool an inquiry turn executes for a buffered call whose function
\* carries a name: end_inquiry, or None for no execution
InquiryExecutes(tc) == IF tc.function.name = "end_inquiry" THEN "end_inquiry" ELSE None

\* inquiry_chat.generate: the buffered calls after the stream has ended; st
\* holds the file system, the events and the record of the executions, and
\* crashed tells that an exception left the generator
RECURSIVE InquiryDispatch(_, _, _, _)
InquiryDispatch(st, buffer, w, env) ==
    IF buffer = <<>> \/ st.crashed THEN st
    ELSE
    LET tc == Head(buffer)
        tool == InquiryExecutes(tc)
        params_str == IF "arguments" \in DOMAIN tc.function
                      THEN tc.function.arguments ELSE "{}"
        parsed == JsonLoads(params_str)
        params_dict == IF Strip(params_str) = "" THEN EmptyDict ELSE parsed.value
        r == Execute(tool, params_dict, w, st.fs, env)
        complete == "inquiry_complete" \in DOMAIN r.result
    IN  IF "function" \notin DOMAIN tc
        THEN InquiryDispatch(st, Tail(buffer), w, env)
        ELSE IF "name" \notin DOMAIN tc.function
        THEN [st EXCEPT !.crashed = TRUE]
        ELSE IF tool = None
        THEN InquiryDispatch(st, Tail(buffer), w, env)
        ELSE IF Strip(params_str) # "" /\ ~parsed.ok
        THEN InquiryDispatch(
                [st EXCEPT !.events = Append(@, InquiryComplete(FallbackSummary))],
                Tail(buffer), w, env)
        ELSE InquiryDispatch(
                [st EXCEPT
                    !.fs = r.fs,
                    !.io = @ \cup r.io,
                    !.executed = Append(@, [name |-> tool, args |-> params_dict,
                                            id |-> IF "id" \in DOMAIN tc THEN tc.id
                                                   ELSE None]),
                    !.events = IF complete
                               THEN Append(@, InquiryComplete(r.result.summary))
                               ELSE @],
                Tail(buffer), w, env)

\* inquiry_chat.generate for the chunks the gateway yields
InquiryTurn(w, stream, fsys, env) ==
    LET acc == InquiryLoop(InquiryStart, stream)
        st0 == [fs |-> fsys, io |-> {}, events |-> acc.events, executed |-> <<>>,
                crashed |-> FALSE]
        st1 == InquiryDispatch(st0, acc.tool_calls_buffer, w, env)
    IN  IF acc.error THEN st0
        ELSE IF st1.crashed THEN st1
        ELSE [st1 EXCEPT !.events = @ \o <<InquiryDone(acc.full_response), EndMarker>>]

\* ------------------------------------------------------------------------
\* generate_study_plan
\* ------------------------------------------------------------------------

\* the contents of the chunks that carry choices
RECURSIVE ResponseChunks(_)
ResponseChunks(chunks) ==
    IF chunks = <<>> THEN <<>>
    ELSE (IF Head(chunks).kind = "response"
          THEN <<Head(chunks).choices[1].message.content>> ELSE <<>>)
            \o ResponseChunks(Tail(chunks))

\* generate_study_plan for the chunks the gateway yields: the session, the
\* file system and the response to the caller
GenerateStudyPlan(w, chunks, disk, fsys) ==
    LET study_plan == Join(ResponseChunks(chunks), "")
        wr == WriteFile(fsys, PathJoin(w.path, "study_plan.md"), TextFile(study_plan))
        w1 == [w EXCEPT !.current_phase = "teaching"]
    IN  IF ~wr.ok
        THEN [workspace |-> w, fs |-> fsys, response |-> [status |-> 500],
              saved |-> "none"]
        ELSE [workspace |-> w1,
              fs |-> SaveWorkspace(w1, wr.fs, disk),
              saved |-> IF SaveSucceeded(w1, wr.fs, disk) THEN "ok" ELSE "failed",
              response |-> [status |-> 200, success |-> TRUE, study_plan |-> study_plan]]

\* ------------------------------------------------------------------------
\* Inputs
\* ------------------------------------------------------------------------

\* the sequences over S of length at most n
SeqsUpTo(S, n) == UNION {[1..k -> S] : k \in 0..n}

\* what the endpoint can do with a streamed request whose lines, when it
\* answers, are chunks of the given set
Refusal == [status |-> 500, lines |-> <<>>, fails |-> FALSE]

Answers(chunks) ==
    {[status |-> 200, lines |-> l, fails |-> FALSE] : l \in SeqsUpTo(chunks, MaxStream)}

Breakdowns(chunks) ==
    {[status |-> 200, lines |-> l, fails |-> TRUE] : l \in SeqsUpTo(chunks, MaxStream)}

Transports(chunks) == {Refusal} \cup Answers(chunks) \cup Breakdowns(chunks)

\* what the endpoint can do with a blocking request
BlockingOutcomes(texts) ==
    {[outcome |-> "ok", text |-> t] : t \in texts}
        \cup {[outcome |-> "status", text |-> ""], [outcome |-> "exception", text |-> ""]}

DiskOutcomes == {"ok", "fail_history", "fail_state"}

SearchOutcomes == {"ok", "status", "exception"}

\* a message of four characters and one that alone exceeds the threshold of
\* a model with 1K context
ShortText == "hiya"

LongText == Repeat("abcd", 801)

UserInputs == {ShortText, LongText}

\* the configurations a process may be started with
Configs ==
    {[max_context |-> 1, provider |-> "", api_key |-> ""],
     [max_context |-> 2, provider |-> "tavily", api_key |-> "key"]}

Themes == {"a/b"}

\* the session the model follows, and an id no session has
SessionId == WorkspaceIdOf("a/b", 0)

SessionPath == PathJoin(WorkspaceRoot, SessionId)

RequestIds == {SessionId, "missing"}

\* tool-call fragments as the endpoint streams them
CallWrite == [id |-> "call_1", function |-> [name |-> "file_system", arguments |-> ArgsWrite]]

CallSearch == [id |-> "call_2", function |-> [name |-> "web_search", arguments |-> ArgsSearch]]

CallWriteHead == [id |-> "call_1", function |-> [name |-> "file_system", arguments |-> ""]]

\* the first fragment of a call that carries the beginning of its arguments
CallWriteBegun ==
    [id |-> "call_1", function |-> [name |-> "file_system", arguments |-> ArgsWriteHead]]

ArgsHeadFragment == [function |-> [arguments |-> ArgsWriteHead]]

ArgsTailFragment == [function |-> [arguments |-> ArgsWriteTail]]

ArgsSummaryFragment == [function |-> [arguments |-> ArgsSummary]]

NameOnly == [function |-> [name |-> "generate_exercise"]]

CallEndInquiry ==
    [id |-> "call_3", function |-> [name |-> "end_inquiry", arguments |-> ArgsSummary]]

CallEndInquiryEmpty ==
    [id |-> "call_3", function |-> [name |-> "end_inquiry", arguments |-> ""]]

CallUnknown == [id |-> "call_4", function |-> [name |-> "run_code", arguments |-> "{}"]]

\* the chunks of the session life cycle
LeanChunks == {ToolCallChunk(<<CallWrite>>)}

\* the chunks of a teaching turn studied in detail
TeachingChunks ==
    {ContentChunk("Sure")}
        \cup {ToolCallChunk(<<tc>>) :
                tc \in {CallWrite, CallSearch, CallWriteHead, CallWriteBegun,
                        ArgsHeadFragment, ArgsTailFragment, NameOnly, CallEndInquiry,
                        CallUnknown}}
        \cup {ToolCallChunk(<<CallWrite, CallSearch>>)}

\* the chunks of an inquiry turn studied in detail
InquiryChunks ==
    {ContentChunk("Sure")}
        \cup {ToolCallChunk(<<tc>>) :
                tc \in {CallWrite, CallSearch, CallEndInquiry, CallEndInquiryEmpty,
                        ArgsHeadFragment, ArgsSummaryFragment, CallUnknown}}

\* ------------------------------------------------------------------------
\* State
\* ------------------------------------------------------------------------

VARIABLES
    config,             \* config_manager.config: default model and search provider
    now,                \* the clock second
    fs,                 \* the file system: [files, dirs]
    active_workspaces,  \* WorkspaceManager.active_workspaces
    compress_calls,     \* invocations of compress_context since the session began
    op,                 \* the last operation
    outcome,            \* how it ended: ok, error, not_found, crash
    stream,             \* the chunks the gateway yielded in it
    offered,            \* the tools offered to the model in it
    events,             \* the events sent to the caller in it
    executed,           \* the calls of ToolExecutor.execute in it
    io,                 \* the file-system accesses of the tools in it
    response,           \* the response of a non-streaming handler
    saved,              \* whether save_workspace ran in it: none, ok, failed
    prompted,           \* the messages a teaching turn sent to the model in it
    wire,               \* what the endpoint did with the streamed request of it
    summarized          \* the calls of compress_context in it: what the endpoint
                        \* did and what the session holds as the summary

store == <<config, now, fs, active_workspaces, compress_calls>>

observed == <<op, outcome, stream, offered, events, executed, io, response, saved,
              prompted, wire, summarized>>

vars == <<config, now, fs, active_workspaces, compress_calls,
          op, outcome, stream, offered, events, executed, io, response, saved,
          prompted, wire, summarized>>

NoResponse == [status |-> 0]

\* what get_workspace returns for the session now: the cached object, or
\* else the session as loaded from storage
Session == GetWorkspace(SessionId, active_workspaces, fs, config)

\* the environment a tool runs in
Env(search) ==
    [provider |-> config.provider, api_key |-> config.api_key, search |-> search,
     now |-> now]

\* the request found no session: a 404, nothing else happens
NotFound(name) ==
    /\ op' = name
    /\ outcome' = "not_found"
    /\ stream' = <<>> /\ offered' = {} /\ events' = <<>> /\ executed' = <<>>
    /\ io' = {} /\ saved' = "none"
    /\ prompted' = <<>>
    /\ wire' = <<>>
    /\ summarized' = <<>>
    /\ response' = [status |-> 404]
    /\ UNCHANGED store

\* the state of a process just started on an empty workspace root
Init ==
    /\ config \in Configs
    /\ now = 0
    /\ fs = [files |-> <<>>, dirs |-> {"/", WorkspaceRoot}]
    /\ active_workspaces = <<>>
    /\ compress_calls = 0
    /\ op = "start" /\ outcome = "ok"
    /\ stream = <<>> /\ offered = {} /\ events = <<>> /\ executed = <<>>
    /\ io = {} /\ saved = "none"
    /\ prompted = <<>>
    /\ wire = <<>>
    /\ summarized = <<>>
    /\ response = NoResponse

\* the create_workspace route: the theme of the request is stripped, and an
\* empty theme is answered with status 400
CreateWorkspaceRoute(requested) ==
    \E theme \in {Strip(requested)} :
    \E c \in {CreateWorkspace(theme, now, fs, config)} :
        /\ fs' = IF theme = "" THEN fs ELSE c.fs
        /\ active_workspaces' = IF theme = "" THEN active_workspaces
                                 ELSE (c.workspace.id :> c.workspace) @@ active_workspaces
        /\ op' = "create" /\ outcome' = IF theme = "" THEN "refused" ELSE "ok"
        /\ stream' = <<>> /\ offered' = {} /\ events' = <<>> /\ executed' = <<>>
        /\ io' = {} /\ saved' = "none"
        /\ prompted' = <<>>
        /\ wire' = <<>>
        /\ summarized' = <<>>
        /\ response' = IF theme = "" THEN [status |-> 400, success |-> FALSE]
                        ELSE [status |-> 200, success |-> TRUE, id |-> c.workspace.id]
        /\ UNCHANGED <<config, now, compress_calls>>

\* a clock second passes
ClockTick ==
    /\ now < MaxClock
    /\ now' = now + 1
    /\ op' = "tick" /\ outcome' = "ok"
    /\ stream' = <<>> /\ offered' = {} /\ events' = <<>> /\ executed' = <<>>
    /\ io' = {} /\ saved' = "none"
    /\ prompted' = <<>>
    /\ wire' = <<>>
    /\ summarized' = <<>>
    /\ response' = NoResponse
    /\ UNCHANGED <<config, fs, active_workspaces, compress_calls>>

\* the inquiry_chat route, with what the endpoint does with its request
InquiryChat(id, transport, search) ==
    \E g \in {GetWorkspace(id, active_workspaces, fs, config)} :
    \E chunks \in {ChatCompletion(transport)} :
    \E t \in {IF g.found THEN InquiryTurn(g.workspace, chunks, fs, Env(search))
              ELSE [found |-> FALSE]} :
        IF ~g.found THEN NotFound("inquiry")
        ELSE /\ active_workspaces' = g.cache
             /\ fs' = t.fs
             /\ op' = "inquiry"
             /\ outcome' = IF t.crashed THEN "crash"
                           ELSE IF chunks # <<>> /\ chunks[Len(chunks)].kind = "error"
                           THEN "error" ELSE "ok"
             /\ stream' = chunks
             /\ offered' = InquiryTools
             /\ events' = t.events
             /\ executed' = t.executed
             /\ io' = t.io
             /\ saved' = "none"
             /\ prompted' = <<>>
             /\ wire' = <<transport>>
             /\ summarized' = <<>>
             /\ response' = NoResponse
             /\ UNCHANGED <<config, now, compress_calls>>

\* the generate_study_plan route, with what the endpoint does with its request
\* and what the storage does with the save
PlanRoute(id, transport, disk) ==
    \E g \in {GetWorkspace(id, active_workspaces, fs, config)} :
    \E chunks \in {ChatCompletionBlocking(transport)} :
    \E t \in {IF g.found THEN GenerateStudyPlan(g.workspace, chunks, disk, fs)
              ELSE [found |-> FALSE]} :
        IF ~g.found THEN NotFound("plan")
        ELSE /\ active_workspaces' = [g.cache EXCEPT ![id] = t.workspace]
             /\ fs' = t.fs
             /\ op' = "plan"
             /\ outcome' = IF t.response.status = 200 THEN "ok" ELSE "crash"
             /\ stream' = chunks
             /\ offered' = {}
             /\ events' = <<>> /\ executed' = <<>> /\ io' = {}
             /\ saved' = t.saved
             /\ prompted' = <<>>
             /\ wire' = <<>>
             /\ summarized' = <<>>
             /\ response' = t.response
             /\ UNCHANGED <<config, now, compress_calls>>

\* the teaching_chat route, with what the endpoint does with the chat request
\* and the compression request, what the search provider does and what the
\* storage does with the save
TeachingChat(id, user_input, transport, compression, search, disk) ==
    \E g \in {GetWorkspace(id, active_workspaces, fs, config)} :
    \E chunks \in {ChatCompletion(transport)} :
    \E t \in {IF g.found
              THEN TeachingTurn(g.workspace, user_input, chunks, compression, disk, fs,
                                Env(search))
              ELSE [found |-> FALSE]} :
        IF ~g.found THEN NotFound("teaching")
        ELSE /\ Len(g.workspace.messages) < MaxMessages
             /\ compress_calls + t.compressions <= MaxCompressions
             /\ active_workspaces' = [g.cache EXCEPT ![id] = t.workspace]
             /\ fs' = t.fs
             /\ compress_calls' = compress_calls + t.compressions
             /\ op' = "teaching"
             /\ outcome' = IF t.completed THEN "ok" ELSE "error"
             /\ stream' = chunks
             /\ offered' = TeachingTools
             /\ events' = t.events
             /\ executed' = t.executed
             /\ io' = t.io
             /\ saved' = t.saved
             /\ prompted' = TeachingRequest(g.workspace, user_input)
             /\ wire' = <<transport>>
             /\ summarized' = IF t.compressions > 0
                              THEN <<[outcome |-> compression.outcome,
                                      text |-> compression.text,
                                      returned |-> t.workspace.compressed_context]>>
                              ELSE <<>>
             /\ response' = NoResponse
             /\ UNCHANGED <<config, now>>

\* the execute_tool route
ExecuteToolRoute(id, tool_name, params, search) ==
    \E g \in {GetWorkspace(id, active_workspaces, fs, config)} :
    \E r \in {IF g.found THEN Execute(tool_name, params, g.workspace, fs, Env(search))
              ELSE [found |-> FALSE]} :
        IF ~g.found THEN NotFound("execute_tool")
        ELSE /\ active_workspaces' = g.cache
             /\ fs' = r.fs
             /\ op' = "execute_tool"
             /\ outcome' = IF r.raised THEN "crash" ELSE "ok"
             /\ stream' = <<>> /\ offered' = {} /\ events' = <<>>
             /\ executed' = <<[name |-> tool_name, args |-> params, id |-> None]>>
             /\ io' = r.io
             /\ saved' = "none"
             /\ prompted' = <<>>
             /\ wire' = <<>>
             /\ summarized' = <<>>
             /\ response' = r.result
             /\ UNCHANGED <<config, now, compress_calls>>

\* the get_messages route: get_workspace and a look at the session
GetMessages(id) ==
    \E g \in {GetWorkspace(id, active_workspaces, fs, config)} :
        IF ~g.found THEN NotFound("get_messages")
        ELSE /\ active_workspaces' = g.cache
             /\ op' = "get_messages" /\ outcome' = "ok"
             /\ stream' = <<>> /\ offered' = {} /\ events' = <<>> /\ executed' = <<>>
             /\ io' = {} /\ saved' = "none"
             /\ prompted' = <<>>
             /\ wire' = <<>>
             /\ summarized' = <<>>
             /\ response' = [status |-> 200, success |-> TRUE,
                             phase |-> g.workspace.current_phase]
             /\ UNCHANGED <<config, now, fs, compress_calls>>

\* the process ends and a new one starts, with the configuration cfg:
\* WorkspaceManager.__init__ leaves the cache empty
Restart(cfg) ==
    /\ config' = cfg
    /\ active_workspaces' = <<>>
    /\ op' = "restart" /\ outcome' = "ok"
    /\ stream' = <<>> /\ offered' = {} /\ events' = <<>> /\ executed' = <<>>
    /\ io' = {} /\ saved' = "none"
    /\ prompted' = <<>>
    /\ wire' = <<>>
    /\ summarized' = <<>>
    /\ response' = NoResponse
    /\ UNCHANGED <<now, fs, compress_calls>>

\* ------------------------------------------------------------------------
\* The life cycle of a session
\* ------------------------------------------------------------------------

\* what the compression request is answered with, asked only when the turn
\* compresses
CompressionOutcomes ==
    BlockingOutcomes({"SUMMARY", ""}) \cup {[outcome |-> "malformed", text |-> ""]}

NoCompression == [outcome |-> "ok", text |-> "SUMMARY"]

\* teaching_chat for every input of the given sets; the compression request
\* is answered only in a turn that compresses, the search provider only in a
\* turn that searches, and the storage only in a turn that saves
TeachingChatOver(ids, transports, inputs, disks) ==
    \E id \in ids, user_input \in inputs, transport \in transports :
    \E g \in {GetWorkspace(id, active_workspaces, fs, config)} :
    \E acc \in {TeachingLoop(TeachingStart, ChatCompletion(transport))} :
    \E calls \in {PendingCalls(acc)} :
    \E search \in IF config.provider # "" /\ calls # <<>> /\ calls[1].name = "web_search"
                  THEN SearchOutcomes ELSE {"ok"} :
    \E compresses \in {g.found /\ TeachingTurn(g.workspace, user_input,
                                              ChatCompletion(transport), NoCompression,
                                              "ok", fs, Env(search)).compressions > 0} :
    \E compression \in IF compresses THEN CompressionOutcomes ELSE {NoCompression},
       disk \in IF ~acc.error THEN disks ELSE {"ok"} :
        TeachingChat(id, user_input, transport, compression, search, disk)

\* the configuration of the life cycle: a model with 1K context, no search
LifeCycleConfig == [max_context |-> 1, provider |-> "", api_key |-> ""]

InitLifeCycle == Init /\ config = LifeCycleConfig

LifeCycleTransports == {Refusal} \cup Answers(LeanChunks)

Next ==
    \/ \E theme \in Themes : ~Exists(fs, SessionPath) /\ CreateWorkspaceRoute(theme)
    \/ \E transport \in {Refusal} \cup Answers({ToolCallChunk(<<CallEndInquiry>>)}) :
            InquiryChat(SessionId, transport, "ok")
    \/ \E transport \in BlockingOutcomes({"PLAN"}) : PlanRoute(SessionId, transport, "ok")
    \/ TeachingChatOver({SessionId}, LifeCycleTransports, UserInputs, {"ok"})
    \/ ExecuteToolRoute(SessionId, "file_system", ParamsWrite, "ok")
    \/ GetMessages(SessionId)
    \/ Restart(config)

Spec == InitLifeCycle /\ [][Next]_vars

\* ------------------------------------------------------------------------
\* Persistence: turns, saves that may fail, restarts with any configuration
\* ------------------------------------------------------------------------

\* the model answers every turn with one call of file_system
StoreTransports == {[status |-> 200, lines |-> <<ToolCallChunk(<<CallWrite>>)>>, fails |-> FALSE]}

\* the model answers an inquiry turn with text, with a call of end_inquiry,
\* or with both, and the connection may break after it
StoreInquiries ==
    {[status |-> 200, lines |-> l, fails |-> f] :
        l \in {<<ContentChunk("Sure")>>, <<ToolCallChunk(<<CallEndInquiry>>)>>,
               <<ContentChunk("Sure"), ToolCallChunk(<<CallEndInquiryEmpty>>)>>},
        f \in BOOLEAN}

NextStore ==
    \/ \E theme \in Themes : ~Exists(fs, SessionPath) /\ CreateWorkspaceRoute(theme)
    \/ \E disk \in DiskOutcomes :
            PlanRoute(SessionId, [outcome |-> "ok", text |-> "PLAN"], disk)
    \/ TeachingChatOver({SessionId}, StoreTransports, {LongText}, DiskOutcomes)
    \/ \E transport \in {Refusal} \cup StoreTransports \cup StoreInquiries :
            InquiryChat(SessionId, transport, "ok")
    \/ \E cfg \in Configs : Restart(cfg)

SpecStore == Init /\ [][NextStore]_vars

\* ------------------------------------------------------------------------
\* A session just created, and one whose study plan has just been generated
\* ------------------------------------------------------------------------

EmptyRoot == [files |-> <<>>, dirs |-> {"/", WorkspaceRoot}]

Created(cfg) == CreateWorkspace("a/b", 0, EmptyRoot, cfg)

Planned(cfg) ==
    GenerateStudyPlan(Created(cfg).workspace,
                      ChatCompletionBlocking([outcome |-> "ok", text |-> "PLAN"]),
                      "ok", Created(cfg).fs)

InitCreated ==
    /\ config \in Configs
    /\ now = 0
    /\ fs = Created(config).fs
    /\ active_workspaces = (SessionId :> Created(config).workspace)
    /\ compress_calls = 0
    /\ op = "create" /\ outcome = "ok"
    /\ stream = <<>> /\ offered = {} /\ events = <<>> /\ executed = <<>>
    /\ io = {} /\ saved = "none"
    /\ prompted = <<>>
    /\ wire = <<>>
    /\ summarized = <<>>
    /\ response = [status |-> 200, success |-> TRUE, id |-> SessionId]

InitPlanned ==
    /\ config \in Configs
    /\ now = 0
    /\ fs = Planned(config).fs
    /\ active_workspaces = (SessionId :> Planned(config).workspace)
    /\ compress_calls = 0
    /\ op = "plan" /\ outcome = "ok"
    /\ stream = ChatCompletionBlocking([outcome |-> "ok", text |-> "PLAN"])
    /\ offered = {} /\ events = <<>> /\ executed = <<>>
    /\ io = {} /\ saved = "ok"
    /\ prompted = <<>>
    /\ wire = <<>>
    /\ summarized = <<>>
    /\ response = Planned(config).response

\* ------------------------------------------------------------------------
\* The inquiry turn in detail
\* ------------------------------------------------------------------------

NextInquiry ==
    \/ \E id \in RequestIds, transport \in Transports(InquiryChunks) :
            InquiryChat(id, transport, "ok")
    \/ \E cfg \in Configs : Restart(cfg)

SpecInquiry == InitCreated /\ [][NextInquiry]_vars

\* ------------------------------------------------------------------------
\* The first teaching turn of a session in detail
\* ------------------------------------------------------------------------

NextTeaching ==
    /\ op = "plan"
    /\ TeachingChatOver({SessionId}, Transports(TeachingChunks), UserInputs, {"ok"})

SpecTeaching == InitPlanned /\ [][NextTeaching]_vars

\* ------------------------------------------------------------------------
\* The streaming gateway under a teaching turn
\* ------------------------------------------------------------------------

\* a "data: " line whose payload json.loads rejects
MalformedLine == [kind |-> "malformed"]

GatewayChunks ==
    {ContentChunk("Sure"), ContentChunk("ly"), MalformedLine,
     ToolCallChunk(<<CallWrite>>), ToolCallChunk(<<CallSearch>>)}

NextGateway ==
    /\ op = "plan"
    /\ TeachingChatOver({SessionId}, Transports(GatewayChunks), {ShortText}, {"ok"})

SpecGateway == InitPlanned /\ [][NextGateway]_vars

\* ------------------------------------------------------------------------
\* Requests for a session by id
\* ------------------------------------------------------------------------

\* the ids of the requests: the id of the session, ids with "." and "..", an
\* id with a separator, absolute ids and an id nothing is stored under
LookupIds ==
    {SessionId, ".", "..", SessionId \o "/..", SessionId \o "/notes", "/", "missing",
     "missing/.."}

NextLookup ==
    \/ \E id \in LookupIds : ExecuteToolRoute(id, "web_search", ParamsSearch, "ok")
    \/ \E id \in LookupIds : GetMessages(id)
    \/ \E cfg \in Configs : Restart(cfg)

SpecLookup == InitCreated /\ [][NextLookup]_vars

\* ------------------------------------------------------------------------
\* The creation of sessions
\* ------------------------------------------------------------------------

\* a theme of 64 characters with reserved characters
LongTheme == Repeat("Linear Algebra: ", 4)

\* themes of create requests: two with the same slug, one of blanks only and
\* a long one
CreateThemes == {"a/b", "ab", " ", LongTheme}

NextCreate ==
    \/ \E theme \in CreateThemes : CreateWorkspaceRoute(theme)
    \/ ClockTick
    \/ \E id \in {WorkspaceIdOf(Strip(theme), 0) : theme \in CreateThemes} : GetMessages(id)

SpecCreate == Init /\ [][NextCreate]_vars

\* ------------------------------------------------------------------------
\* The tool executor in detail
\* ------------------------------------------------------------------------

\* a field left out of the arguments
Absent == "<absent>"

\* the JSON object with the fields of rec that are not left out
Arguments(rec) == JObject([k \in {j \in DOMAIN rec : rec[j] # Absent} |-> rec[k]])

\* paths a file_system call may name: inside the session directory, in a
\* sibling directory whose name starts with the session's, absolute, and the
\* session directory itself
ToolPaths ==
    {Absent, "n.md", "../" \o SessionId \o "x/n.md", "/etc/n.md", "."}

\* instructions without the separator
MalformedInstructions == {"no-arrow-here"}

\* instructions with the separator: plain, padded with blanks, and with a
\* second separator
EditInstructions == {"foo->bar", " o -> 0 ", "foo->bar->baz"}

FileSystemParams ==
    {Arguments([action |-> a, path |-> p, content |-> Absent, edit_instruction |-> Absent]) :
        a \in {"read", "delete", "mkdir", "chmod"}, p \in ToolPaths}
    \cup
    {Arguments([action |-> "write", path |-> p, content |-> c, edit_instruction |-> Absent]) :
        p \in ToolPaths, c \in {Absent, "foo baz foo"}}
    \cup
    {Arguments([action |-> "edit", path |-> p, content |-> Absent, edit_instruction |-> e]) :
        p \in ToolPaths, e \in {Absent} \cup EditInstructions \cup MalformedInstructions}

ExerciseParams ==
    {Arguments([question |-> q, type |-> t, options |-> o, blanks |-> b,
                correct_answers |-> c]) :
        q \in {Absent, "2+2?"}, t \in {Absent, "choice", "fill_blank"},
        o \in {<<"3", "4">>}, b \in {<<"_">>}, c \in {<<"4">>}}

\* the calls of the executor: each tool with arguments of its own shape, with
\* no fields and with arguments that are no mapping, and a tool it does not know
ToolCalls ==
    ({"file_system"} \X FileSystemParams)
    \cup ({"generate_exercise"} \X ExerciseParams)
    \cup ({"web_search"} \X {ParamsSearch})
    \cup ({"end_inquiry"} \X {ParamsSummary})
    \cup (Tools \X {EmptyDict, JArray})
    \cup ({"run_code"} \X {EmptyDict})

NextTool ==
    \E call \in ToolCalls :
        \E search \in IF call[1] = "web_search" /\ config.provider # ""
                      THEN SearchOutcomes ELSE {"ok"} :
            ExecuteToolRoute(SessionId, call[1], call[2], search)

SpecTool == InitCreated /\ [][NextTool]_vars

\* ------------------------------------------------------------------------
\* The exercises of a session
\* ------------------------------------------------------------------------

\* arguments of generate_exercise with one option or two, and with each other
\* field present or left out
ExerciseRequests ==
    {Arguments([question |-> q, type |-> t, options |-> o, blanks |-> b,
                correct_answers |-> c]) :
        q \in {Absent, "2+2?"}, t \in {Absent, "choice", "fill_blank"},
        o \in {<<"3">>, <<"3", "4">>}, b \in {Absent, <<"_">>},
        c \in {Absent, <<"4">>}}

NextExercise ==
    \/ \E params \in ExerciseRequests :
            ExecuteToolRoute(SessionId, "generate_exercise", params, "ok")
    \/ ClockTick

SpecExercise == InitCreated /\ [][NextExercise]_vars

\* ------------------------------------------------------------------------
\* Properties
\* ------------------------------------------------------------------------

StudyPlanPath == PathJoin(SessionPath, "study_plan.md")

\* the content of the study-plan artifact, None when there is none
StudyPlan == IF StudyPlanPath \in DOMAIN fs.files THEN fs.files[StudyPlanPath] ELSE None

PhaseRank(phase) == CASE phase = "init" -> 0 [] phase = "inquiry" -> 1 [] OTHER -> 2

\* C3: over every step of the life cycle (create, inquiry turn, generate
\* plan, teaching turn, tool execution, save, restart and reload) the phase
\* of the session only moves forward along init, inquiry, teaching, and never
\* goes from init to teaching in one step.
C3_PhaseMonotonic ==
    [][(Session.found /\ Session'.found) =>
          LET before == Session.workspace.current_phase
              after == Session'.workspace.current_phase
          IN  /\ PhaseRank(after) >= PhaseRank(before)
              /\ ~(before = "init" /\ after = "teaching")]_vars

\* the model call of the last operation failed: the gateway yielded an error
\* event instead of a response
ModelCallFailed(chunks) == chunks # <<>> /\ chunks[Len(chunks)].kind = "error"

\* C4: when the model call of generate plan fails, the caller gets an error,
\* the phase of the session stays what it was, and the study-plan artifact is
\* neither written nor overwritten.
C4_PlanFailureLeavesSession ==
    [][(op' = "plan" /\ outcome' # "not_found" /\ ModelCallFailed(stream')) =>
          /\ ~(response'.status = 200 /\ response'.success)
          /\ Session'.workspace.current_phase = Session.workspace.current_phase
          /\ StudyPlan' = StudyPlan]_vars

\* C5: over the whole life of a session compress_context is invoked at most
\* once, whatever the compression returns.
C5_CompressionAtMostOnce == compress_calls <= 1

\* the message at position i of the log answers a call of the message before
AnswersPreceding(log, i) ==
    /\ i > 1
    /\ log[i - 1].role = "assistant"
    /\ "tool_calls" \in DOMAIN log[i - 1]
    /\ \E k \in 1..Len(log[i - 1].tool_calls) :
            log[i - 1].tool_calls[k].id = log[i].tool_call_id

\* C10: in every reachable message log each tool message is immediately
\* preceded by an assistant message whose tool_calls hold a descriptor with
\* the id the tool message refers to.
C10_ToolResultFollowsItsCall ==
    Session.found =>
        \A i \in 1..Len(Session.workspace.messages) :
            Session.workspace.messages[i].role = "tool"
                => AnswersPreceding(Session.workspace.messages, i)

\* a log that holds a tool result
C10_Witness ==
    /\ Session.found
    /\ \E i \in 1..Len(Session.workspace.messages) :
            Session.workspace.messages[i].role = "tool"

\* the tool calls a model stream carries, fragment by fragment
RECURSIVE StreamCalls(_)
StreamCalls(chunks) ==
    IF chunks = <<>> THEN <<>>
    ELSE (IF "tool_calls" \in DOMAIN Head(chunks) THEN Head(chunks).tool_calls ELSE <<>>)
            \o StreamCalls(Tail(chunks))

\* the number of tool-result messages of a log
ToolResults(log) == LET IsTool(m) == m.role = "tool" IN Len(SelectSeq(log, IsTool))

\* C1: in every inquiry turn the tools sent to the model are exactly
\* end_inquiry, and whatever the model stream carries the turn executes no
\* generate_exercise, web_search or file_system operation, performs no file
\* or search operation and leaves the file system as it was.
C1_InquiryOnlyEndsInquiry ==
    [][(op' = "inquiry" /\ outcome' # "not_found") =>
          /\ offered' = {"end_inquiry"}
          /\ \A i \in 1..Len(executed') :
                executed'[i].name \notin {"generate_exercise", "web_search", "file_system"}
          /\ io' = {}
          /\ fs' = fs]_vars

\* an inquiry turn whose model stream asked for file_system and that ran to
\* its end
C1_Witness ==
    /\ op = "inquiry" /\ outcome = "ok"
    /\ \E i \in 1..Len(StreamCalls(stream)) :
            /\ "name" \in DOMAIN StreamCalls(stream)[i].function
            /\ StreamCalls(stream)[i].function.name = "file_system"

\* the path a file_system call asks for, joined to the session root and
\* normalised, is neither the session root nor inside it
Escapes(params) ==
    /\ IsMapping(params)
    /\ Get(params, "path", "") # ""
    /\ ~Within(NormPath(PathJoin(SessionPath, Get(params, "path", ""))), SessionPath)

\* C2: every file_system call whose path, joined to the session root and
\* normalised, lies outside the session root (a sibling directory whose name
\* starts with the session directory's name included) returns an error and
\* reads, creates, changes and removes nothing.
C2_EscapingPathRefused ==
    [][(op' = "execute_tool" /\ outcome' # "not_found"
            /\ executed'[1].name = "file_system" /\ Escapes(executed'[1].args)) =>
          /\ IsError(response')
          /\ io' = {}
          /\ fs' = fs]_vars

\* C6: after a save that wrote both artifacts, loading the session from
\* storage by its id, under any configuration of the process, yields the
\* current_phase, token_count, token_threshold, compressed_context and message
\* list the session held at the save.
C6_SaveReloadRoundTrip ==
    saved = "ok" =>
        \A cfg \in Configs :
            LET loaded == LoadWorkspaceFromDisk(SessionId, SessionPath, fs, cfg)
                held == active_workspaces[SessionId]
            IN  /\ loaded.found
                /\ loaded.workspace.current_phase = held.current_phase
                /\ loaded.workspace.token_count = held.token_count
                /\ loaded.workspace.token_threshold = held.token_threshold
                /\ loaded.workspace.compressed_context = held.compressed_context
                /\ loaded.workspace.messages = held.messages

\* a saved session whose log holds a tool result and that has a summary
C6_Witness ==
    /\ op = "teaching" /\ saved = "ok"
    /\ ToolResults(active_workspaces[SessionId].messages) > 0
    /\ active_workspaces[SessionId].compressed_context = "SUMMARY"
    /\ active_workspaces[SessionId].token_count > 0

\* C7: execute raises for no tool name, known or unknown, and no arguments,
\* fields missing or no mapping at all: it returns a result mapping, and a
\* result that reports no success carries an error message.
C7_ExecuteNeverRaises ==
    (op = "execute_tool" /\ outcome # "not_found") =>
        /\ outcome = "ok"
        /\ IsError(response) \/ ("success" \in DOMAIN response /\ response.success)

\* a known tool called with arguments that are no mapping returned an error
C7_Witness ==
    /\ op = "execute_tool" /\ outcome = "ok"
    /\ executed[1].name \in Tools
    /\ ~IsMapping(executed[1].args)
    /\ IsError(response)

\* C8: a teaching turn invokes execute at most once and appends at most one
\* tool-result message to the log, however many tool calls and fragments the
\* model stream carries.
C8_OneToolCallPerTurn ==
    [][(op' = "teaching" /\ outcome' # "not_found") =>
          /\ Len(executed') <= 1
          /\ ToolResults(Session'.workspace.messages)
                <= ToolResults(Session.workspace.messages) + 1]_vars

\* a turn whose model stream named two tool calls and that executed one
C8_Witness ==
    /\ op = "teaching" /\ outcome = "ok"
    /\ Len(executed) = 1
    /\ ToolResults(Session.workspace.messages) = 1
    /\ LET Named(tc) == "name" \in DOMAIN tc.function
       IN  Len(SelectSeq(StreamCalls(stream), Named)) >= 2

\* the stream carries two independent tool calls: two call ids, each call
\* with its own name and arguments
TwoIndependentCalls(chunks) ==
    LET tcs == StreamCalls(chunks)
        Whole(tc) == /\ "id" \in DOMAIN tc
                     /\ "name" \in DOMAIN tc.function
                     /\ "arguments" \in DOMAIN tc.function
    IN  /\ Len(tcs) = 2
        /\ Whole(tcs[1]) /\ Whole(tcs[2])
        /\ tcs[1].id # tcs[2].id
        /\ tcs[1].function.name # tcs[2].function.name
        /\ tcs[1].function.arguments # tcs[2].function.arguments

\* C9: when the model stream of a teaching turn carries two independent
\* tool calls, the call executed and recorded in the log has the name, the
\* id and the arguments of the first of them.
C9_FirstCallHonoured ==
    (op = "teaching" /\ outcome = "ok" /\ TwoIndependentCalls(stream)) =>
        LET first == StreamCalls(stream)[1]
            log == Session.workspace.messages
            recorded == log[Len(log) - 1].tool_calls[1]
        IN  /\ Len(executed) = 1
            /\ executed[1].name = first.function.name
            /\ executed[1].id = first.id
            /\ executed[1].args = JsonLoads(first.function.arguments).value
            /\ recorded.id = first.id
            /\ recorded.function.name = first.function.name
            /\ log[Len(log)].tool_call_id = first.id

\* log a is a prefix of log b
IsPrefix(a, b) == Len(a) <= Len(b) /\ SubSeq(b, 1, Len(a)) = a

\* C11: over an inquiry turn, generate plan, a teaching turn (its save
\* included) and a tool execution, the message log of the session before the
\* operation is a prefix of the log after it.
C11_LogAppendOnly ==
    [][(op' \in {"inquiry", "plan", "teaching", "execute_tool"}
            /\ Session.found /\ Session'.found) =>
          IsPrefix(Session.workspace.messages, Session'.workspace.messages)]_vars

\* a teaching turn that added its messages to a log that held some
C11_Witness ==
    /\ op = "teaching" /\ outcome = "ok"
    /\ Session.found
    /\ Len(Session.workspace.messages) >= 4

\* the number of error events of an event stream
ErrorEvents(evs) == LET IsErr(e) == e.type = "error" IN Len(SelectSeq(evs, IsErr))

\* C12: a teaching turn whose model stream yields an error event, wherever
\* in the stream, emits one error event as its last event, executes no tool,
\* invokes no compression and leaves the session (log, token_count,
\* compressed_context, phase) and the files of the storage as they were.
C12_StreamErrorLeavesSession ==
    [][(op' = "teaching" /\ outcome' # "not_found" /\ ModelCallFailed(stream')) =>
          /\ ErrorEvents(events') = 1
          /\ events'[Len(events')].type = "error"
          /\ executed' = <<>>
          /\ compress_calls' = compress_calls
          /\ Session'.workspace = Session.workspace
          /\ fs' = fs]_vars

\* a turn whose stream failed after a content delta and a whole tool call
C12_Witness ==
    /\ op = "teaching" /\ outcome = "error"
    /\ ModelCallFailed(stream)
    /\ \E i \in 1..Len(stream) : "content" \in DOMAIN stream[i]
    /\ \E i \in 1..Len(StreamCalls(stream)) :
            /\ "id" \in DOMAIN StreamCalls(stream)[i]
            /\ "name" \in DOMAIN StreamCalls(stream)[i].function

\* C13: the event stream of every inquiry turn and every teaching turn, one
\* that ends in an error event included, has the end marker as its last
\* element; in a turn without error the element before it is the done event,
\* which in a teaching turn carries the token_count of the session.
C13_StreamEndsWithMarker ==
    (op \in {"inquiry", "teaching"} /\ outcome # "not_found") =>
        /\ events # <<>>
        /\ events[Len(events)] = EndMarker
        /\ ErrorEvents(events) = 0 =>
              /\ Len(events) >= 2
              /\ events[Len(events) - 1].type = "done"
              /\ op = "teaching" =>
                    events[Len(events) - 1].token_count = Session.workspace.token_count

\* C14: the phase of a session becomes teaching only by a generate plan whose
\* model call succeeded; whenever the phase is teaching the study-plan
\* artifact exists, and after generate plan it holds the model response; no
\* inquiry turn, teaching turn or tool execution changes the phase.
C14_TeachingOnlyByPlan ==
    [][(Session.found /\ Session'.found) =>
          LET before == Session.workspace.current_phase
              after == Session'.workspace.current_phase
          IN  /\ (after = "teaching" /\ before # "teaching") =>
                    /\ op' = "plan"
                    /\ ~ModelCallFailed(stream')
                    /\ StudyPlan' = TextFile(response'.study_plan)
              /\ after = "teaching" => StudyPlan' # None
              /\ op' \in {"inquiry", "teaching", "execute_tool"} => after = before]_vars

\* C15: a teaching turn on a session whose phase is not teaching, and an
\* inquiry turn on a session whose phase is neither init nor inquiry, is
\* refused: no request reaches the model and the session and the storage
\* stay as they were.
C15_TurnsGatedByPhase ==
    [][(Session.found
            /\ \/ op' = "teaching" /\ Session.workspace.current_phase # "teaching"
               \/ op' = "inquiry"
                    /\ Session.workspace.current_phase \notin {"init", "inquiry"}) =>
          /\ stream' = <<>>
          /\ Session'.workspace = Session.workspace
          /\ fs' = fs]_vars

\* C16: for a session whose phase is init or inquiry no operation (inquiry
\* turn, teaching turn, execute_tool) executes generate_exercise, web_search
\* or file_system.
C16_OnlyEndInquiryBeforeTeaching ==
    [][(Session.found /\ Session.workspace.current_phase \in {"init", "inquiry"}) =>
          \A i \in 1..Len(executed') :
              executed'[i].name \notin {"generate_exercise", "web_search", "file_system"}]_vars

\* the arguments of the fragments of a stream, one after the other
RECURSIVE FragmentArguments(_)
FragmentArguments(tcs) ==
    IF tcs = <<>> THEN ""
    ELSE (IF "arguments" \in DOMAIN Head(tcs).function
          THEN Head(tcs).function.arguments ELSE "")
            \o FragmentArguments(Tail(tcs))

\* the stream carries one call, of end_inquiry: a fragment with the name,
\* followed by fragments that continue it
OneEndInquiryCall(chunks) ==
    LET tcs == StreamCalls(chunks)
    IN  /\ ~ModelCallFailed(chunks)
        /\ tcs # <<>>
        /\ "name" \in DOMAIN tcs[1].function
        /\ tcs[1].function.name = "end_inquiry"
        /\ \A i \in 2..Len(tcs) :
                "name" \notin DOMAIN tcs[i].function /\ "id" \notin DOMAIN tcs[i]

\* C17: an inquiry turn in which the model invokes end_inquiry with arguments
\* that, taken over all fragments of the call, are valid JSON with a summary
\* field emits an inquiry-complete signal with that summary and changes
\* neither the session nor the storage.
C17_EndInquiryEchoesSummary ==
    [][(op' = "inquiry" /\ outcome' # "not_found" /\ OneEndInquiryCall(stream')
            /\ JsonLoads(FragmentArguments(StreamCalls(stream'))).ok
            /\ "summary" \in DOMAIN
                    JsonLoads(FragmentArguments(StreamCalls(stream'))).value.fields) =>
          LET summary ==
                  JsonLoads(FragmentArguments(StreamCalls(stream'))).value.fields.summary
          IN  /\ \E i \in 1..Len(events') : events'[i] = InquiryComplete(summary)
              /\ \A i \in 1..Len(events') :
                    events'[i].type = "inquiry_complete" => events'[i].summary = summary
              /\ Session'.workspace = Session.workspace
              /\ fs' = fs]_vars

\* the stream carries one call of end_inquiry, in one fragment, whose
\* arguments are empty or no valid JSON
MalformedEndInquiry(chunks) ==
    LET tcs == StreamCalls(chunks)
    IN  /\ OneEndInquiryCall(chunks)
        /\ Len(tcs) = 1
        /\ "arguments" \in DOMAIN tcs[1].function
        /\ \/ Strip(tcs[1].function.arguments) = ""
           \/ ~JsonLoads(tcs[1].function.arguments).ok

\* C18: an inquiry turn in which the model invokes end_inquiry with
\* arguments that are empty or no valid JSON emits an inquiry-complete signal
\* whose summary is the fallback summary, and no error event.
C18_MalformedEndInquiryFallsBack ==
    (op = "inquiry" /\ outcome # "not_found" /\ MalformedEndInquiry(stream)) =>
        /\ \E i \in 1..Len(events) : events[i] = InquiryComplete(FallbackSummary)
        /\ \A i \in 1..Len(events) :
              events[i].type = "inquiry_complete" => events[i].summary = FallbackSummary
        /\ ErrorEvents(events) = 0

\* the last operation was a file_system edit with the given instruction on a
\* path that, joined to the session root and normalised, is full_path
EditCalled(call, instruction, full_path) ==
    /\ call.name = "file_system"
    /\ IsMapping(call.args)
    /\ Get(call.args, "action", "") = "edit"
    /\ Get(call.args, "edit_instruction", "") = instruction
    /\ Get(call.args, "path", "") # ""
    /\ NormPath(PathJoin(SessionPath, Get(call.args, "path", ""))) = full_path

\* C19: a file_system edit of an existing file in the session root with an
\* instruction that has no '->' returns an error with the format hint and
\* leaves the content of the file, and the rest of the storage, as it was.
C19_MalformedEditRejected ==
    [][\A instruction \in MalformedInstructions, full_path \in DOMAIN fs.files :
          (op' = "execute_tool" /\ outcome' # "not_found"
              /\ Find(instruction, "->", 1) = 0
              /\ Within(full_path, SessionPath)
              /\ EditCalled(executed'[1], instruction, full_path)) =>
            /\ IsError(response')
            /\ "hint" \in DOMAIN response'
            /\ response'.hint = "format: old text->new text"
            /\ fs' = fs]_vars

\* an edit without separator of the existing file n.md was answered by an error
C19_Witness ==
    /\ op = "execute_tool" /\ outcome = "ok"
    /\ EditCalled(executed[1], "no-arrow-here", PathJoin(SessionPath, "n.md"))
    /\ PathJoin(SessionPath, "n.md") \in DOMAIN fs.files
    /\ fs.files[PathJoin(SessionPath, "n.md")] = TextFile("foo baz foo")
    /\ IsError(response)

\* the text of an instruction before its first separator
OldText(instruction) == SubSeq(instruction, 1, Find(instruction, "->", 1) - 1)

\* the text of an instruction after its first separator
NewText(instruction) ==
    SubSeq(instruction, Find(instruction, "->", 1) + 2, Len(instruction))

\* the text of an instruction between its first separator and the next one,
\* or the end of the instruction
NewTextUsed(instruction) ==
    LET rest == NewText(instruction)
        k == Find(rest, "->", 1)
    IN  IF k = 0 THEN rest ELSE SubSeq(rest, 1, k - 1)

\* an edit of the text file at full_path with the instruction succeeded and
\* left in the file the pieces of its content between the occurrences of old,
\* joined by new; nothing else changed
EditReplaced(instruction, full_path, old, new) ==
    (op' = "execute_tool" /\ outcome' # "not_found"
        /\ fs.files[full_path].kind = "text"
        /\ EditCalled(executed'[1], instruction, full_path)) =>
      /\ ~IsError(response') /\ response'.success
      /\ fs'.dirs = fs.dirs
      /\ DOMAIN fs'.files = DOMAIN fs.files
      /\ \A q \in DOMAIN fs.files \ {full_path} : fs'.files[q] = fs.files[q]
      /\ fs'.files[full_path] = TextFile(Join(Split(fs.files[full_path].text, old), new))

\* C20: a file_system edit with instruction "<old>-><new>" on an existing
\* file succeeds and leaves in the file its content with every occurrence of
\* <old>, the text before the separator, replaced by <new>, the text after
\* it, and all other characters as they were; so "foo->bar" on "foo baz foo"
\* leaves "bar baz bar".  Nothing else changes.
C20_EditReplacesEveryOccurrence ==
    [][\A instruction \in EditInstructions, full_path \in DOMAIN fs.files :
          /\ EditReplaced(instruction, full_path,
                          OldText(instruction), NewText(instruction))
          /\ (fs.files[full_path] = TextFile("foo baz foo")
                  /\ op' = "execute_tool" /\ outcome' # "not_found"
                  /\ EditCalled(executed'[1], "foo->bar", full_path)) =>
                fs'.files[full_path].text = "bar baz bar"]_vars

\* C20, amended: <old> is the text before the first separator and <new> the
\* text between the first separator and the next one or the end of the
\* instruction, both without their leading and trailing blanks; with a <old>
\* that is not empty the edit succeeds and leaves in the file its content with
\* every occurrence of <old> replaced by <new> and all other characters as
\* they were; so "foo->bar" on "foo baz foo" leaves "bar baz bar".
C20_EditReplacesTrimmedTexts ==
    [][\A instruction \in EditInstructions, full_path \in DOMAIN fs.files :
          /\ Strip(OldText(instruction)) # "" =>
                EditReplaced(instruction, full_path,
                             Strip(OldText(instruction)), Strip(NewTextUsed(instruction)))
          /\ (fs.files[full_path] = TextFile("foo baz foo")
                  /\ op' = "execute_tool" /\ outcome' # "not_found"
                  /\ EditCalled(executed'[1], "foo->bar", full_path)) =>
                fs'.files[full_path].text = "bar baz bar"]_vars

\* the padded edit " o -> 0 " of n.md succeeded and the file holds
\* "f00 baz f00": every o of "foo baz foo" was replaced
C20_Witness ==
    /\ op = "execute_tool" /\ outcome = "ok"
    /\ EditCalled(executed[1], " o -> 0 ", PathJoin(SessionPath, "n.md"))
    /\ "success" \in DOMAIN response
    /\ fs.files[PathJoin(SessionPath, "n.md")] = TextFile("f00 baz f00")

\* the quarters, rounded down, of the content lengths of the first n messages
\* of the log, added up
RECURSIVE QuartersOfFirst(_, _)
QuartersOfFirst(log, n) ==
    IF n = 0 THEN 0
    ELSE QuartersOfFirst(log, n - 1) + (Len(log[n].content) \div 4)

\* C21: at the end of every completed teaching turn the token_count of the
\* session is the sum over all messages of its log of the content length
\* divided by 4, rounded down per message: a value the log alone determines.
C21_TokenCountIsLogSum ==
    (op = "teaching" /\ outcome = "ok") =>
        /\ Session.found
        /\ Session.workspace.token_count =
                QuartersOfFirst(Session.workspace.messages, Len(Session.workspace.messages))
        /\ events[Len(events) - 1] = DoneEvent(Session.workspace.token_count)

\* a completed teaching turn with a tool call left a log of three messages
\* or more whose estimate is not zero
C21_Witness ==
    /\ op = "teaching" /\ outcome = "ok"
    /\ executed # <<>>
    /\ Len(Session.workspace.messages) >= 3
    /\ Session.workspace.token_count > 0

StatePath == PathJoin(SessionPath, "workspace_state.json")

\* what get_workspace returns for the session after the step
SessionAfter == GetWorkspace(SessionId, active_workspaces', fs', config')

\* C22: create_workspace sets the token_threshold of the session to 80% of
\* the maximum context size of the configured model; an inquiry turn, a
\* generate plan and a teaching turn, with its compression and its save, leave
\* it as it was, whatever the configuration is by then; and a restart, with
\* any configuration, of a session whose state was saved gives the session the
\* threshold it had, the one its saved state holds.
C22_ThresholdFixedAtCreation ==
    [][/\ op' = "create" =>
            /\ SessionAfter.found
            /\ 10 * SessionAfter.workspace.token_threshold = 8 * (config.max_context * 1000)
       /\ (op' \in {"inquiry", "plan", "teaching"} /\ outcome' # "not_found") =>
            /\ Session.found /\ SessionAfter.found
            /\ SessionAfter.workspace.token_threshold = Session.workspace.token_threshold
       /\ (op' = "restart" /\ Session.found /\ StatePath \in DOMAIN fs.files) =>
            /\ SessionAfter.found
            /\ SessionAfter.workspace.token_threshold = Session.workspace.token_threshold
            /\ fs.files[StatePath].kind = "json"
            /\ "token_threshold" \in DOMAIN fs.files[StatePath].doc
            /\ SessionAfter.workspace.token_threshold =
                    fs.files[StatePath].doc.token_threshold]_vars

\* a session created with a model of 1K context, whose state was saved by a
\* teaching turn, is found after a restart with a model of 2K context and has
\* the threshold 800
C22_Witness ==
    /\ op = "restart" /\ config.max_context = 2
    /\ StatePath \in DOMAIN fs.files
    /\ Session.found
    /\ Len(Session.workspace.messages) >= 3
    /\ Session.workspace.token_threshold = 800

\* C23: a create_workspace call that succeeds yields an id that no session
\* of the cache has and a directory that did not exist, so that any two calls,
\* two calls with the same theme in the same clock second included, yield
\* distinct ids and directories and no session shares its directory or its
\* cache entry with another.
C23_CreatedSessionsDistinct ==
    [][(op' = "create" /\ outcome' = "ok") =>
          /\ response'.id \notin DOMAIN active_workspaces
          /\ ~Exists(fs, PathJoin(WorkspaceRoot, response'.id))]_vars

\* the characters a slug must not contain
ReservedCharacters == {"/", "\\", "<", ">", ":", "\"", "|", "?", "*"}

\* the id is the timestamp of the clock second, "_" and a slug without
\* separator and reserved character
TimestampAndCleanSlug(id) ==
    /\ Len(id) >= 16
    /\ SubSeq(id, 1, 16) = "20260101_00000" \o ToString(now) \o "_"
    /\ \A i \in 17..Len(id) : Char(id, i) \notin ReservedCharacters

\* C24: for every theme, create_workspace yields an id made of a timestamp
\* and a sanitized slug without path separator and reserved character, and
\* the id is at most 50 characters long.
C24_IdWithinFiftyCharacters ==
    (op = "create" /\ outcome = "ok") =>
        /\ TimestampAndCleanSlug(response.id)
        /\ Len(response.id) <= 50

\* C24, amended: for every theme, create_workspace yields an id made of a
\* timestamp and a sanitized slug without path separator and reserved
\* character, and the slug is at most 50 characters long.
C24_SlugWithinFiftyCharacters ==
    (op = "create" /\ outcome = "ok") =>
        /\ TimestampAndCleanSlug(response.id)
        /\ Len(response.id) - 16 <= 50
        /\ response.id \in DOMAIN active_workspaces
        /\ PathJoin(WorkspaceRoot, response.id) \in fs.dirs

\* a session was created for the long theme: its slug has 50 characters, the
\* most a slug may have
C24_Witness ==
    /\ op = "create" /\ outcome = "ok"
    /\ Len(response.id) = 66
    /\ PathJoin(WorkspaceRoot, response.id) \in fs.dirs

\* the step is an execution of generate_exercise for the session
ExerciseCalled ==
    /\ op' = "execute_tool" /\ outcome' # "not_found"
    /\ executed'[1].name = "generate_exercise"
    /\ IsMapping(executed'[1].args)

\* the fields the type of the exercise requires are missing from the call
LacksRequired(args) ==
    LET type == IF "type" \in DOMAIN args.fields THEN args.fields.type ELSE "choice"
        Given(k) == IF k \in DOMAIN args.fields THEN Len(args.fields[k]) ELSE 0
    IN  \/ type = "choice" /\ (Given("options") < 2 \/ Given("correct_answers") = 0)
        \/ type = "fill_blank" /\ (Given("blanks") = 0 \/ Given("correct_answers") = 0)

\* where the exercise with the id is kept
ExercisePath(exercise_id) ==
    SessionPath \o "/exercises/" \o exercise_id \o ".json"

\* C25: generate_exercise returns an error and persists nothing when the
\* type is choice (the default) and fewer than 2 options or no correct answers
\* are given, and when the type is fill_blank and no blanks or no correct
\* answers are given; with a question and the fields its type requires it
\* persists one Exercise artifact, the exercise it returns, under the id it
\* returns, and changes nothing else.
C25_ExerciseValidated ==
    [][ExerciseCalled =>
          LET args == executed'[1].args
          IN  /\ LacksRequired(args) => (IsError(response') /\ fs' = fs)
              /\ (~LacksRequired(args) /\ "question" \in DOMAIN args.fields) =>
                    /\ ~IsError(response') /\ response'.success
                    /\ response'.exercise.question = args.fields.question
                    /\ fs'.dirs = fs.dirs
                    /\ DOMAIN fs'.files =
                            DOMAIN fs.files \cup {ExercisePath(response'.exercise_id)}
                    /\ fs'.files[ExercisePath(response'.exercise_id)] =
                            JsonDump(response'.exercise)
                    /\ \A q \in DOMAIN fs.files \ {ExercisePath(response'.exercise_id)} :
                            fs'.files[q] = fs.files[q]]_vars

\* a fill_blank exercise with blanks but without correct answers was
\* refused, in a session that holds the one exercise an earlier call persisted
C25_Witness ==
    /\ op = "execute_tool" /\ outcome = "ok"
    /\ executed[1].name = "generate_exercise"
    /\ IsMapping(executed[1].args)
    /\ DOMAIN executed[1].args.fields = {"question", "type", "options", "blanks"}
    /\ executed[1].args.fields.type = "fill_blank"
    /\ IsError(response)
    /\ Cardinality({q \in DOMAIN fs.files : StartsWith(q, SessionPath \o "/exercises/")}) = 1

\* C26: a generate_exercise call that succeeds returns an id under which the
\* session holds no exercise yet and leaves every artifact stored before as it
\* was, so that any two successful calls, two calls in the same clock second
\* included, return distinct ids and the exercise of the earlier call remains
\* fetchable with its content.
C26_ExerciseIdsDistinct ==
    [][(ExerciseCalled /\ ~IsError(response')) =>
          /\ ExercisePath(response'.exercise_id) \notin DOMAIN fs.files
          /\ \A q \in DOMAIN fs.files : fs'.files[q] = fs.files[q]]_vars

\* the last messages and events of a completed teaching turn that executed
\* one call: the tool-result message with the content, answering the call, and
\* the done event followed by the end marker
CompletedWithToolResult(content) ==
    LET log == Session.workspace.messages
    IN  /\ outcome = "ok"
        /\ Len(executed) = 1
        /\ Len(log) >= 3
        /\ log[Len(log)].role = "tool"
        /\ log[Len(log)].tool_call_id = executed[1].id
        /\ log[Len(log)].content = content
        /\ Len(events) >= 2
        /\ events[Len(events)] = EndMarker
        /\ events[Len(events) - 1].type = "done"

\* C27: with no search provider configured, web_search returns a result
\* with an explanatory error and an empty result list and does not raise, and
\* the teaching turn that invoked it completes with the tool-result message
\* holding that result, the done event and the end marker.
C27_UnconfiguredSearchDegrades ==
    (op = "teaching" /\ config.provider = "" /\ executed # <<>>
            /\ executed[1].name = "web_search") =>
        /\ CompletedWithToolResult("{\"error\": \"search is not configured\", \"results\": []}")
        /\ \E i \in 1..Len(events) :
                /\ events[i].type = "tool_call" /\ events[i].status = "completed"
                /\ events[i].name = "web_search"
                /\ DOMAIN events[i].result = {"error", "results"}
                /\ events[i].result.error # ""
                /\ events[i].result.results = <<>>
        /\ io = {}

\* a teaching turn of a process without search provider executed web_search
C27_Witness ==
    /\ op = "teaching" /\ outcome = "ok" /\ config.provider = ""
    /\ executed # <<>> /\ executed[1].name = "web_search"
    /\ Session.workspace.messages[Len(Session.workspace.messages)].role = "tool"

\* C28: a teaching turn in which the model calls a tool name that is not
\* registered is not aborted: the call is answered with an error result and
\* has no side effect, the turn appends the user, the assistant and the
\* tool-result message, persists the session and ends with the done event and
\* the end marker.
C28_UnknownToolRecoverable ==
    [][(op' = "teaching" /\ outcome' # "not_found" /\ executed' # <<>>
            /\ executed'[1].name \notin
                    {"generate_exercise", "web_search", "file_system", "end_inquiry"}) =>
          LET old == Session.workspace.messages
              log == SessionAfter.workspace.messages
          IN  /\ outcome' = "ok"
              /\ io' = {}
              /\ fs'.dirs = fs.dirs
              /\ \A q \in DOMAIN fs'.files :
                    (q \in DOMAIN fs.files /\ fs'.files[q] = fs.files[q])
                        \/ q \in {PathJoin(SessionPath, "history.json"), StatePath}
              /\ Len(log) = Len(old) + 3
              /\ SubSeq(log, 1, Len(old)) = old
              /\ log[Len(old) + 1].role = "user"
              /\ log[Len(old) + 2].role = "assistant"
              /\ log[Len(old) + 3].role = "tool"
              /\ log[Len(old) + 3].content =
                    "{\"error\": \"unknown tool: " \o executed'[1].name \o "\"}"
              /\ saved' = "ok"
              /\ fs'.files[PathJoin(SessionPath, "history.json")] = JsonDump(log)
              /\ events'[Len(events')] = EndMarker
              /\ events'[Len(events') - 1].type = "done"]_vars

\* a teaching turn executed the call of run_code, a name that is not
\* registered, and completed
C28_Witness ==
    /\ op = "teaching" /\ outcome = "ok"
    /\ executed # <<>> /\ executed[1].name = "run_code"
    /\ saved = "ok"

\* the stream carries one call: a fragment with id and name, followed by
\* fragments that continue its arguments
OneFragmentedCall(chunks) ==
    LET tcs == StreamCalls(chunks)
    IN  /\ ~ModelCallFailed(chunks)
        /\ tcs # <<>>
        /\ \A i \in 1..Len(tcs) : "function" \in DOMAIN tcs[i]
        /\ "id" \in DOMAIN tcs[1] /\ "name" \in DOMAIN tcs[1].function
        /\ \A i \in 2..Len(tcs) :
                "name" \notin DOMAIN tcs[i].function /\ "id" \notin DOMAIN tcs[i]

\* C29: when the arguments of the tool call of a teaching turn arrive in
\* several fragments, the turn does not crash, and the arguments passed to
\* execute are the parse of the concatenation of all argument fragments in
\* arrival order when that concatenation is valid JSON.
C29_ArgumentsConcatenated ==
    (op = "teaching" /\ outcome # "not_found" /\ OneFragmentedCall(stream)) =>
        /\ outcome = "ok"
        /\ Len(executed) = 1
        /\ JsonLoads(FragmentArguments(StreamCalls(stream))).ok =>
                executed[1].args = JsonLoads(FragmentArguments(StreamCalls(stream))).value

\* the content deltas of the chunks, concatenated
RECURSIVE ContentDeltas(_)
ContentDeltas(chunks) ==
    IF chunks = <<>> THEN ""
    ELSE (IF "content" \in DOMAIN Head(chunks) THEN Head(chunks).content ELSE "")
            \o ContentDeltas(Tail(chunks))

\* C30: a completed teaching turn without error grows the log by exactly
\* two messages when it executed no tool, the user message and then the
\* assistant message with the concatenation of all content deltas, and by
\* exactly three when it executed one: the user message, the assistant message
\* with the content and the descriptor of the call, and the tool-result
\* message; the messages before are kept, and the history saved by the turn
\* is the log with the messages appended.
C30_TurnAppendsTwoOrThree ==
    [][(op' = "teaching" /\ outcome' = "ok") =>
          LET old == Session.workspace.messages
              log == SessionAfter.workspace.messages
              n == Len(old)
          IN  /\ Len(log) = n + (IF executed' = <<>> THEN 2 ELSE 3)
              /\ SubSeq(log, 1, n) = old
              /\ log[n + 1].role = "user"
              /\ log[n + 1].content \in {"hiya", Repeat("abcd", 801)}
              /\ DOMAIN log[n + 1] = {"role", "content"}
              /\ log[n + 2].role = "assistant"
              /\ log[n + 2].content = ContentDeltas(stream')
              /\ IF executed' = <<>>
                 THEN DOMAIN log[n + 2] = {"role", "content"}
                 ELSE /\ Len(executed') = 1
                      /\ Len(log[n + 2].tool_calls) = 1
                      /\ log[n + 2].tool_calls[1].id = executed'[1].id
                      /\ log[n + 2].tool_calls[1].function.name = executed'[1].name
                      /\ log[n + 3].role = "tool"
                      /\ log[n + 3].tool_call_id = executed'[1].id
              /\ saved' = "ok"
              /\ fs'.files[PathJoin(SessionPath, "history.json")] = JsonDump(log)]_vars

\* a completed turn without tool call whose assistant message holds two
\* content deltas
C30_Witness ==
    /\ op = "teaching" /\ outcome = "ok" /\ executed = <<>>
    /\ Len(Session.workspace.messages) = 2
    /\ Session.workspace.messages[2] = [role |-> "assistant", content |-> "SureSure"]
    /\ saved = "ok"

\* the position of the first event of evs with the given status: 0 when there
\* is none
FirstStatus(evs, status) ==
    LET at == {i \in 1..Len(evs) : evs[i] = StatusEvent(status)}
    IN  IF at = {} THEN 0 ELSE CHOOSE i \in at : \A j \in at : i <= j

\* the texts compress_context can return
Summaries == {CompressContext(c) : c \in CompressionOutcomes}

\* C31: a teaching turn that reaches its end invokes compress_context if and
\* only if the token_count it has just recomputed exceeds token_threshold and
\* the session holds no compressed summary; when it does, the events hold the
\* status compressing_context, later context_compressed, later done, the
\* session holds the returned summary, and so does the state a successful save
\* has written; when it does not, no such status is sent and the summary of
\* the session is as it was.
C31_CompressionWhenDue ==
    [][(op' = "teaching" /\ outcome' = "ok") =>
        /\ Session.found /\ SessionAfter.found
        /\ LET before == Session.workspace
               after == SessionAfter.workspace
               due == /\ after.token_count > after.token_threshold
                      /\ before.compressed_context \in {"", None}
               invoked == compress_calls' = compress_calls + 1
               compressing == FirstStatus(events', "compressing_context")
               compressed == FirstStatus(events', "context_compressed")
           IN  /\ invoked <=> due
               /\ ~invoked => compress_calls' = compress_calls
               /\ invoked =>
                    /\ 0 < compressing /\ compressing < compressed
                    /\ \E k \in (compressed + 1)..Len(events') : events'[k].type = "done"
                    /\ after.compressed_context \in Summaries
                    /\ saved' = "ok" =>
                         /\ StatePath \in DOMAIN fs'.files
                         /\ fs'.files[StatePath].kind = "json"
                         /\ "compressed_context" \in DOMAIN fs'.files[StatePath].doc
                         /\ fs'.files[StatePath].doc.compressed_context =
                                after.compressed_context
               /\ ~invoked =>
                    /\ compressing = 0 /\ compressed = 0
                    /\ after.compressed_context = before.compressed_context]_vars

\* a turn over the threshold in a session that holds a summary has ended
\* without compression, after a turn that compressed
C31_Witness ==
    /\ op = "teaching" /\ outcome = "ok"
    /\ compress_calls = 1
    /\ Session.found
    /\ Session.workspace.compressed_context = "SUMMARY"
    /\ Session.workspace.token_count > Session.workspace.token_threshold
    /\ FirstStatus(events, "compressing_context") = 0

\* the failures of the compression request
CompressionFailures == {c \in CompressionOutcomes : c.outcome # "ok"}

\* the turn went on after compress_context: it ran save_workspace and ended
\* its events with done and the end marker
TurnWentOn ==
    /\ op = "teaching" /\ outcome = "ok"
    /\ saved \in {"ok", "failed"}
    /\ Len(events) >= 2
    /\ events[Len(events) - 1].type = "done"
    /\ events[Len(events)] = EndMarker

\* C32 as stated: compress_context never raises; it returns the text of the
\* model unchanged on success and, on every failure (exception, timeout,
\* status other than 200, response without the expected fields), one and the
\* same sentinel, the string every other failure yields as well; the teaching
\* turn then saves the session and emits done.
C32_OneSentinel ==
    \A i \in DOMAIN summarized :
        /\ summarized[i].outcome = "ok" => summarized[i].returned = summarized[i].text
        /\ summarized[i].outcome # "ok" =>
                \A c \in CompressionFailures : summarized[i].returned = CompressContext(c)
        /\ TurnWentOn

\* C32 amended: compress_context never raises; it returns the text of the
\* model unchanged on success, the sentinel "[Context compression failed -
\* using recent messages only]" on a status other than 200 and the sentinel
\* "[Context compression error]" on an exception, a timeout or a response
\* without the expected fields; the teaching turn then saves the session and
\* emits done.
C32_SentinelPerFailure ==
    \A i \in DOMAIN summarized :
        /\ summarized[i].outcome = "ok" => summarized[i].returned = summarized[i].text
        /\ summarized[i].outcome = "status" =>
                summarized[i].returned =
                    "[Context compression failed - using recent messages only]"
        /\ summarized[i].outcome \in {"exception", "malformed"} =>
                summarized[i].returned = "[Context compression error]"
        /\ TurnWentOn

\* a turn whose compression request got a response without the expected
\* fields has saved the session with the sentinel as its summary
C32_Witness ==
    /\ summarized # <<>>
    /\ summarized[1].outcome = "malformed"
    /\ saved = "ok"
    /\ Session.found
    /\ Session.workspace.compressed_context = "[Context compression error]"
    /\ StatePath \in DOMAIN fs.files
    /\ fs.files[StatePath].doc.compressed_context = "[Context compression error]"

\* the endpoint refused the request, broke the connection or sent a line that
\* is no JSON
TransportFailed(transport) ==
    \/ transport.status # 200
    \/ transport.fails
    \/ \E i \in DOMAIN transport.lines : transport.lines[i] = MalformedLine

ErrorChunks(chunks) == LET IsErr(c) == c.kind = "error" IN Len(SelectSeq(chunks, IsErr))

\* C33: whenever the endpoint answers a streamed request with a status other
\* than 200, breaks the connection or sends a malformed line, the gateway
\* yields exactly one error chunk and nothing after it, the caller is sent
\* exactly one error event, and the handler does not crash.
C33_TransportFailureIsOneError ==
    \A i \in DOMAIN wire :
        TransportFailed(wire[i]) =>
            /\ ErrorChunks(stream) = 1
            /\ stream[Len(stream)].kind = "error"
            /\ ErrorEvents(events) = 1
            /\ outcome # "crash"

HistoryPath == PathJoin(SessionPath, "history.json")

\* C34: a teaching turn whose save_workspace fails to write history.json or
\* workspace_state.json does not crash and ends its events with done and the
\* end marker; the session of the cache holds what the turn produced: the
\* log with the messages of the turn appended, the token_count of that log,
\* the summary compress_context returned if it was called and the one it had
\* otherwise, and the phase it had; and a later get_workspace for the id
\* returns the session of the cache as it is.
C34_FailedSaveKeepsSession ==
    [][/\ (op' = "teaching" /\ saved' = "failed") =>
            /\ outcome' = "ok"
            /\ Len(events') >= 2
            /\ events'[Len(events') - 1].type = "done"
            /\ events'[Len(events')] = EndMarker
            /\ Session.found /\ SessionAfter.found
            /\ SessionId \in DOMAIN active_workspaces'
            /\ LET before == Session.workspace
                   after == SessionAfter.workspace
               IN  /\ after = active_workspaces'[SessionId]
                   /\ IsPrefix(before.messages, after.messages)
                   /\ Len(after.messages) - Len(before.messages) \in {2, 3}
                   /\ after.token_count =
                        QuartersOfFirst(after.messages, Len(after.messages))
                   /\ after.current_phase = before.current_phase
                   /\ after.compressed_context =
                        IF summarized' # <<>>
                        THEN CompressContext([outcome |-> summarized'[1].outcome,
                                              text |-> summarized'[1].text])
                        ELSE before.compressed_context
       /\ (op' \in {"inquiry", "plan"} /\ SessionId \in DOMAIN active_workspaces) =>
            /\ SessionAfter.found
            /\ SessionAfter.workspace.messages = active_workspaces[SessionId].messages
            /\ SessionAfter.workspace.token_count =
                    active_workspaces[SessionId].token_count
            /\ SessionAfter.workspace.compressed_context =
                    active_workspaces[SessionId].compressed_context
            /\ op' = "inquiry" =>
                    SessionAfter.workspace = active_workspaces[SessionId]]_vars

\* after a teaching turn whose save wrote nothing, an inquiry turn found the
\* session with the log and the summary of that turn, which storage lacks
C34_Witness ==
    /\ op = "inquiry"
    /\ HistoryPath \notin DOMAIN fs.files
    /\ Session.found
    /\ Len(Session.workspace.messages) = 3
    /\ Session.workspace.token_count > Session.workspace.token_threshold
    /\ Session.workspace.compressed_context = "SUMMARY"

\* C35: every session get_workspace has returned, which the cache holds under
\* the id of the request, has a directory that is a direct child of the
\* storage root: an id with "..", "." or a separator that names the storage
\* root itself, a directory outside it or a directory deeper inside it has
\* yielded no session.
C35_SessionsAreChildrenOfRoot ==
    \A id \in DOMAIN active_workspaces :
        /\ NormPath(active_workspaces[id].path) # WorkspaceRoot
        /\ DirName(NormPath(active_workspaces[id].path)) = WorkspaceRoot

\* C36: in the events of a teaching turn that ran to its end, every
\* tool_call event with status started is followed by a tool_call event with
\* the same name and status completed or error, also when the fragment with
\* the name carries no call id and when the stream names several tools.
C36_StartedToolCallsEnd ==
    (op = "teaching" /\ outcome = "ok") =>
        \A i \in DOMAIN events :
            (events[i].type = "tool_call" /\ events[i].status = "started") =>
                \E j \in (i + 1)..Len(events) :
                    /\ events[j].type = "tool_call"
                    /\ events[j].status \in {"completed", "error"}
                    /\ events[j].name = events[i].name

\* C37: a teaching turn that compresses leaves the log it found in place and
\* in order, followed by the two or three messages of the turn, with the
\* token_count of that log, the token_threshold and the phase it found: the
\* compression sets compressed_context and nothing else; and every teaching
\* turn of a session that holds a summary sends to the model the system
\* prompt with the summary, the whole log and the user message.
C37_CompressionKeepsLog ==
    [][/\ (op' = "teaching" /\ summarized' # <<>>) =>
            /\ Session.found /\ SessionAfter.found
            /\ LET before == Session.workspace
                   after == SessionAfter.workspace
                   k == Len(before.messages)
               IN  /\ IsPrefix(before.messages, after.messages)
                   /\ Len(after.messages) - k \in {2, 3}
                   /\ after.messages[k + 1].role = "user"
                   /\ after.messages[k + 2].role = "assistant"
                   /\ after.token_count =
                        QuartersOfFirst(after.messages, Len(after.messages))
                   /\ after.token_threshold = before.token_threshold
                   /\ after.current_phase = before.current_phase
                   /\ after.compressed_context = summarized'[1].returned
       /\ (op' = "teaching" /\ outcome' # "not_found" /\ Session.found
                /\ Session.workspace.compressed_context \notin {"", None}) =>
            /\ Len(prompted') = Len(Session.workspace.messages) + 2
            /\ prompted'[1].role = "system"
            /\ prompted'[1].lesson_context # ""
            /\ SubSeq(prompted', 2, Len(prompted') - 1) = Session.workspace.messages
            /\ prompted'[Len(prompted')].role = "user"]_vars

\* a turn of a session that holds a summary and a log of three messages or
\* more, compressed in an earlier turn, has sent five messages or more
C37_Witness ==
    /\ op = "teaching" /\ outcome = "ok"
    /\ compress_calls = 1
    /\ summarized = <<>>
    /\ Len(prompted) >= 4
    /\ prompted[1].lesson_context # ""
    /\ Session.found
    /\ Len(Session.workspace.messages) >= 4

\* C38: an inquiry turn, whatever the model answers (nothing, text, a call
\* of end_inquiry or of another tool, a failure), leaves the session
\* get_workspace returns for the id as it was, with its phase, log,
\* token_count, token_threshold and compressed_context, and leaves every
\* file and directory of the storage as it was.
C38_InquiryLeavesSession ==
    [][(op' = "inquiry" /\ outcome' # "not_found") =>
          /\ Session.found /\ SessionAfter.found
          /\ SessionAfter.workspace.current_phase = Session.workspace.current_phase
          /\ SessionAfter.workspace.messages = Session.workspace.messages
          /\ SessionAfter.workspace.token_count = Session.workspace.token_count
          /\ SessionAfter.workspace.token_threshold = Session.workspace.token_threshold
          /\ SessionAfter.workspace.compressed_context =
                Session.workspace.compressed_context
          /\ saved' = "none"
          /\ fs' = fs]_vars

\* an inquiry turn that ended with inquiry_complete, in a session that is in
\* the teaching phase with a log and a summary
C38_Witness ==
    /\ op = "inquiry" /\ outcome = "ok"
    /\ \E i \in DOMAIN events : events[i].type = "inquiry_complete"
    /\ executed # <<>>
    /\ Session.found
    /\ Session.workspace.current_phase = "teaching"
    /\ Len(Session.workspace.messages) = 3
    /\ Session.workspace.compressed_context = "SUMMARY"

\* C39: when the process restarts, which empties the cache, the session
\* get_workspace then loads from storage for the id has the phase, the
\* token_count and the log of the session it returned before, at any point
\* of the life of the session, also when it was created and no turn has
\* saved it yet.
C39_ReloadKeepsSession ==
    [][(op' = "restart" /\ Session.found) =>
          /\ SessionAfter.found
          /\ SessionAfter.workspace.current_phase = Session.workspace.current_phase
          /\ SessionAfter.workspace.token_count = Session.workspace.token_count
          /\ SessionAfter.workspace.messages = Session.workspace.messages]_vars

=============================================================================
